---- MODULE Spec2Model ----
(***************************************************************************)
(* Model of the SEO analysis backend: the retrying fetch wrapper           *)
(* (ScrapeService.scrapeUrl / shouldRetry) and the HTML analysis engine    *)
(* (SEOAnalyzer), both of src/backend/services/scrapeService.js, the       *)
(* handler of POST /api/seo/analyze (src/backend/routes/seo.js) and the    *)
(* validators and rate limiter it is deployed with (src/unnamed/part_001). *)
(*                                                                         *)
(* JavaScript strings are modelled as sequences of one-character strings,  *)
(* so that toLowerCase, includes, length and template concatenation are    *)
(* computed character by character.  An optional JavaScript value          *)
(* (undefined / null, or a value) is the empty sequence or the sequence    *)
(* holding the value.                                                      *)
(***************************************************************************)
EXTENDS Integers, Sequences, FiniteSets, TLC

VARIABLES
    \* ---- one scrapeUrl call -------------------------------------------
    options,        \* the options object of the current call
    pc,             \* where the call is: idle, request, delay, returned, thrown, typeerror
    attempt,        \* the loop counter of scrapeUrl
    lastError,      \* None, or Some(error caught last)
    log,            \* history: the requests, failures and delays of the call, in order
    result,         \* None, or Some(value the call resolved with)
    thrownMessage,  \* None, or Some(message of the error the call rejected with)
    \* ---- shouldRetry as a pure function --------------------------------
    error,          \* None, or Some(error handed to shouldRetry)
    retry,          \* None, or Some(what shouldRetry answered)
    \* ---- the SEOAnalyzer.analyze calls ---------------------------------
    doc,            \* the parsed document (what the selectors of the code see) and its url
    report,         \* None, or Some(outcome of analyze: the report, or the error thrown)
    calls,          \* history: the analyze calls made on the analyzer, with what each gave
    \* ---- one POST /api/seo/analyze request ------------------------------
    development,    \* whether process.env.NODE_ENV is 'development'
    req,            \* None, or Some(body of the request: url and options)
    rpc,            \* where the handler is: idle, scraping, responded
    caught,         \* None, or Some(message of the error the handler caught)
    invoked,        \* history: the scrapeUrl and analyze calls of the handler, in order
    res,            \* None, or Some(status and body sent)
    \* ---- the rate limiter of the process --------------------------------
    rateLimitStore, \* global.rateLimitStore: the count of each key
    clock,          \* Date.now()
    checks          \* history: the checkRateLimit calls, with what each returned

scrapeVars == <<options, pc, attempt, lastError, log, result, thrownMessage>>
retryVars == <<error, retry>>
analyzeVars == <<doc, report, calls>>
routeVars == <<development, req, rpc, caught, invoked, res>>
limitVars == <<rateLimitStore, clock, checks>>
vars == <<options, pc, attempt, lastError, log, result, thrownMessage, error, retry, doc, report,
          calls, development, req, rpc, caught, invoked, res, rateLimitStore, clock, checks>>

-----------------------------------------------------------------------------
(* Optional values and JavaScript truthiness.                              *)

None == <<>>
Some(x) == <<x>>
IsSome(o) == Len(o) = 1
Value(o) == o[1]

\* `n || d` for a number n that may be undefined: 0 and undefined are falsy.
NumberOr(o, d) == IF IsSome(o) /\ Value(o) # 0 THEN Value(o) ELSE d

-----------------------------------------------------------------------------
(* Strings.                                                                *)

Upper ==
    <<"A","B","C","D","E","F","G","H","I","J","K","L","M","N","O","P","Q","R","S","T","U","V",
      "W","X","Y","Z">>
Lower ==
    <<"a","b","c","d","e","f","g","h","i","j","k","l","m","n","o","p","q","r","s","t","u","v",
      "w","x","y","z">>
Digit == <<"0","1","2","3","4","5","6","7","8","9">>

\* The characters of the model, in the order of their code points.
Ascii ==
    <<"\t", "\n", " ", "#", "'", "(", ")", ",", "-", ".", "/",
      "0","1","2","3","4","5","6","7","8","9", ":", ";", "<", "=", ">", "?", "@",
      "A","B","C","D","E","F","G","H","I","J","K","L","M","N","O","P","Q","R","S","T","U","V",
      "W","X","Y","Z", "[", "_",
      "a","b","c","d","e","f","g","h","i","j","k","l","m","n","o","p","q","r","s","t","u","v",
      "w","x","y","z">>
CharsOf(s) == {s[i] : i \in 1..Len(s)}
Chars == CharsOf(Ascii)

\* The rank of every character in that order.
codeOf == [c \in Chars |-> CHOOSE k \in 1..Len(Ascii) : Ascii[k] = c]

\* a < b for two strings: the order of the first code unit that differs.
RECURSIVE stringLess(_, _)
stringLess(a, b) ==
    IF b = <<>> THEN FALSE
    ELSE IF a = <<>> THEN TRUE
    ELSE IF Head(a) = Head(b) THEN stringLess(Tail(a), Tail(b))
    ELSE codeOf[Head(a)] < codeOf[Head(b)]

\* The lower-case form of every character: a capital maps to its small letter,
\* any other character to itself.
toLowerCaseChar ==
    [c \in Chars |->
        IF c \in CharsOf(Upper)
        THEN Lower[CHOOSE k \in 1..Len(Upper) : Upper[k] = c]
        ELSE c]

\* String.prototype.toLowerCase
toLowerCase(s) == [i \in 1..Len(s) |-> toLowerCaseChar[s[i]]]

\* String.prototype.includes
includes(s, sub) ==
    \E i \in 0..(Len(s) - Len(sub)) : SubSeq(s, i + 1, i + Len(sub)) = sub

\* String.prototype.startsWith
startsWith(s, prefix) == Len(s) >= Len(prefix) /\ SubSeq(s, 1, Len(prefix)) = prefix

\* What \s matches and trim() removes.
Whitespace == {" ", "\t", "\n"}

RECURSIVE trimStart(_)
trimStart(s) == IF s # <<>> /\ Head(s) \in Whitespace THEN trimStart(Tail(s)) ELSE s

RECURSIVE trimEnd(_)
trimEnd(s) ==
    IF s # <<>> /\ s[Len(s)] \in Whitespace THEN trimEnd(SubSeq(s, 1, Len(s) - 1)) ELSE s

\* String.prototype.trim
trim(s) == trimEnd(trimStart(s))

\* String.prototype.split(/\s+/)
RECURSIVE splitWhitespace(_)
splitWhitespace(s) ==
    IF \E i \in 1..Len(s) : s[i] \in Whitespace
    THEN LET i == CHOOSE k \in 1..Len(s) :
                      s[k] \in Whitespace /\ \A j \in 1..(k - 1) : s[j] \notin Whitespace
             rest == SubSeq(s, i, Len(s))
         IN  <<SubSeq(s, 1, i - 1)>> \o splitWhitespace(trimStart(rest))
    ELSE <<s>>

\* String.prototype.split on a one-character separator.
RECURSIVE split(_, _)
split(s, sep) ==
    IF \E i \in 1..Len(s) : s[i] = sep
    THEN LET i == CHOOSE k \in 1..Len(s) : s[k] = sep /\ \A j \in 1..(k - 1) : s[j] # sep
         IN  <<SubSeq(s, 1, i - 1)>> \o split(SubSeq(s, i + 1, Len(s)), sep)
    ELSE <<s>>

\* Array.prototype.join
RECURSIVE join(_, _)
join(list, sep) ==
    IF list = <<>> THEN <<>>
    ELSE IF Len(list) = 1 THEN list[1]
    ELSE list[1] \o sep \o join(Tail(list), sep)

\* A string is truthy when it is not empty; undefined is falsy.
Truthy(o) == IsSome(o) /\ Len(Value(o)) > 0

\* `${x}` for a string that may be undefined.
Interpolate(o) == IF IsSome(o) THEN Value(o) ELSE <<"u","n","d","e","f","i","n","e","d">>

\* The decimal text of a non-negative integer, as a template literal prints it.
RECURSIVE ToStr(_)
ToStr(n) == IF n < 10 THEN <<Digit[n + 1]>> ELSE ToStr(n \div 10) \o <<Digit[(n % 10) + 1]>>

-----------------------------------------------------------------------------
(* ScrapeService: string literals of the code and the provider's answers.  *)

\* The messages of the errors the HTTP client rejects with.
axiosMessage ==
    [timeout |->
      \* "timeout of 30000ms exceeded"
      <<"t","i","m","e","o","u","t"," ","o","f"," ","3","0","0","0","0","m","s"," ","e","x","c",
        "e","e","d","e","d">>,
     refused |->
      \* "connect ECONNREFUSED 10.0.0.1:443"
      <<"c","o","n","n","e","c","t"," ","E","C","O","N","N","R","E","F","U","S","E","D"," ","1",
        "0",".","0",".","0",".","1",":","4","4","3">>,
     reset |->
      \* "read ECONNRESET"
      <<"r","e","a","d"," ","E","C","O","N","N","R","E","S","E","T">>,
     pipe |->
      \* "write EPIPE"
      <<"w","r","i","t","e"," ","E","P","I","P","E">>,
     rateLimit |->
      \* "Rate Limit Exceeded"
      <<"R","a","t","e"," ","L","i","m","i","t"," ","E","x","c","e","e","d","e","d">>,
     network |->
      \* "Network Error"
      <<"N","e","t","w","o","r","k"," ","E","r","r","o","r">>,
     statusCode |->
      \* "Request failed with status code "
      <<"R","e","q","u","e","s","t"," ","f","a","i","l","e","d"," ","w","i","t","h"," ","s","t",
        "a","t","u","s"," ","c","o","d","e"," ">>]

\* The strings of scrapeUrl: its own error, the pieces of the message it rejects
\* with, the TypeError of reading null.message, and a response body.
scrapeText ==
    [invalidResponse |->
      \* "Invalid response format from scraping service"
      <<"I","n","v","a","l","i","d"," ","r","e","s","p","o","n","s","e"," ","f","o","r","m","a",
        "t"," ","f","r","o","m"," ","s","c","r","a","p","i","n","g"," ","s","e","r","v","i","c",
        "e">>,
     failedToScrape |->
      \* "Failed to scrape URL after "
      <<"F","a","i","l","e","d"," ","t","o"," ","s","c","r","a","p","e"," ","U","R","L"," ","a",
        "f","t","e","r"," ">>,
     attempts |->
      \* " attempts: "
      <<" ","a","t","t","e","m","p","t","s",":"," ">>,
     typeError |->
      \* "Cannot read properties of null (reading 'message')"
      <<"C","a","n","n","o","t"," ","r","e","a","d"," ","p","r","o","p","e","r","t","i","e","s",
        " ","o","f"," ","n","u","l","l"," ","(","r","e","a","d","i","n","g"," ","'","m","e","s",
        "s","a","g","e","'",")">>,
     html |->
      \* "<html></html>"
      <<"<","h","t","m","l",">","<","/","h","t","m","l",">">>]

\* The message of the error for a response outside 2xx.
StatusMessage(status) == axiosMessage.statusCode \o ToStr(status)

DefaultMaxRetries == 3
DefaultRetryDelay == 2000

\* The largest options.maxRetries a caller passes.
MaxRetriesBound == 4

\* The errors client.get rejects with: without a response (network level), or
\* carrying the response of a status outside 2xx.
Errors ==
    LET NetworkMessages ==
            {axiosMessage.timeout, axiosMessage.refused, axiosMessage.reset, axiosMessage.pipe,
             axiosMessage.rateLimit, axiosMessage.network}
    IN  [response : {None}, message : NetworkMessages]
        \cup UNION {[response : {Some([status |-> st])},
                     message : {StatusMessage(st)} \cup NetworkMessages] :
                        st \in {400, 401, 404, 429, 499, 500, 503}}

\* The responses client.get resolves with: a 2xx status and a body, empty or not.
Responses == [status : {200, 204}, data : {<<>>, scrapeText.html}]

OptionValues ==
    [maxRetries : {None} \cup {Some(n) : n \in -1..MaxRetriesBound},
     retryDelay : {None, Some(0), Some(500)},
     retryDelayMs : {None, Some(300)}]

-----------------------------------------------------------------------------
(* ScrapeService.shouldRetry and the pieces of scrapeUrl.                  *)

retryMessages ==
    <<<<"t","i","m","e","o","u","t">>,
      <<"e","c","o","n","n","r","e","f","u","s","e","d">>,
      <<"e","c","o","n","n","r","e","s","e","t">>,
      <<"e","p","i","p","e">>,
      <<"r","a","t","e"," ","l","i","m","i","t">>>>

shouldRetryIgnoringCase(e) ==
    IF ~IsSome(e.response) THEN TRUE
    ELSE IF Value(e.response).status = 429 THEN TRUE
    ELSE IF Value(e.response).status >= 500 THEN TRUE
    ELSE \E k \in 1..Len(retryMessages) : includes(e.message, retryMessages[k])

shouldRetryAlways(e) == TRUE

shouldRetry(e) ==
    IF ~IsSome(e.response) THEN TRUE
    ELSE IF Value(e.response).status = 429 THEN TRUE
    ELSE IF Value(e.response).status >= 500 THEN TRUE
    ELSE LET message == toLowerCase(e.message)
         IN  \E k \in 1..Len(retryMessages) : includes(message, retryMessages[k])

\* const maxRetries = options.maxRetries || 3
maxRetriesOf(opts) == NumberOr(opts.maxRetries, DefaultMaxRetries)

\* const retryDelay = options.retryDelay || 2000
retryDelayOf(opts) == NumberOr(opts.retryDelay, DefaultRetryDelay)

RECURSIVE Pow2(_)
Pow2(n) == IF n = 0 THEN 1 ELSE 2 * Pow2(n - 1)

exponentialDelay(retryDelay, n) == retryDelay * Pow2(n - 1)

\* the argument of this.delay(retryDelay * attempt)
backoffDelay(retryDelay, n) == retryDelay * n

neverSuccess(response) == FALSE

\* response.data !== undefined: true of every body, the empty string included
bodyDefined(response) == Len(response.data) >= 0

\* if (response.data): a non-empty string is truthy
isSuccess(response) == Len(response.data) > 0

\* `Failed to scrape URL after ${maxRetries} attempts: ${lastError.message}`
failureMessage(maxRetries, message) ==
    scrapeText.failedToScrape \o ToStr(maxRetries) \o scrapeText.attempts \o message

Event(ev, ms) == [ev |-> ev, ms |-> ms]

\* The catch block of scrapeUrl, entered with the error `e`, and what follows it:
\* either the backoff delay starts, or the loop is left and the call rejects.
Catch(e, ev) ==
    /\ lastError' = Some(e)
    /\ IF shouldRetry(e) /\ attempt < maxRetriesOf(options)
       THEN /\ pc' = "delay"
            /\ log' = log \o <<Event(ev, 0),
                               Event("delay", backoffDelay(retryDelayOf(options), attempt))>>
            /\ UNCHANGED <<thrownMessage>>
       ELSE /\ pc' = "thrown"
            /\ log' = log \o <<Event(ev, 0)>>
            /\ thrownMessage' =
                   Some(failureMessage(maxRetriesOf(options), e.message))
    /\ UNCHANGED <<options, attempt, result>>

\* scrapeUrl(url, options) is entered: the loop starts with attempt = 1 and
\* issues the first request; with maxRetries < 1 the loop body never runs,
\* lastError is still null and reading lastError.message throws a TypeError.
scrapeUrl(opts) ==
    /\ options' = opts
    /\ attempt' = 1
    /\ lastError' = None
    /\ result' = None
    /\ IF 1 <= maxRetriesOf(opts)
       THEN /\ pc' = "request"
            /\ log' = <<Event("get", 0)>>
            /\ thrownMessage' = None
       ELSE /\ pc' = "thrown"
            /\ log' = <<>>
            /\ thrownMessage' = Some(scrapeText.typeError)

\* A caller calls scrapeUrl(url, options).
Call(opts) ==
    /\ pc = "idle"
    /\ scrapeUrl(opts)
    /\ UNCHANGED <<retryVars, analyzeVars, routeVars, limitVars>>

\* await this.client.get(fullUrl) resolves with a 2xx response.
GetResolves(r) ==
    /\ pc = "request"
    /\ IF isSuccess(r)
       THEN /\ pc' = "returned"
            /\ result' = Some([html |-> r.data, metadata |-> [statusCode |-> r.status]])
            /\ log' = log \o <<Event("body", 0)>>
            /\ UNCHANGED <<options, attempt, lastError, thrownMessage>>
       ELSE Catch([response |-> None, message |-> scrapeText.invalidResponse],
                  IF Len(r.data) > 0 THEN "body" ELSE "empty")
    /\ UNCHANGED <<retryVars, analyzeVars, routeVars, limitVars>>

\* await this.client.get(fullUrl) rejects.
GetRejects(e) ==
    /\ pc = "request"
    /\ Catch(e, "error")
    /\ UNCHANGED <<retryVars, analyzeVars, routeVars, limitVars>>

\* await this.delay(...) resolves; `continue` increments attempt, the loop
\* condition is tested and the next request is issued.
DelayElapsed ==
    /\ pc = "delay"
    /\ attempt' = attempt + 1
    /\ IF attempt + 1 <= maxRetriesOf(options)
       THEN /\ pc' = "request"
            /\ log' = log \o <<Event("elapsed", 0), Event("get", 0)>>
            /\ UNCHANGED thrownMessage
       ELSE /\ pc' = "thrown"
            /\ log' = log \o <<Event("elapsed", 0)>>
            /\ thrownMessage' =
                   Some(failureMessage(maxRetriesOf(options), Value(lastError).message))
    /\ UNCHANGED <<options, lastError, result>>
    /\ UNCHANGED <<retryVars, analyzeVars, routeVars, limitVars>>

\* shouldRetry(error) is evaluated.
ApplyShouldRetry ==
    /\ IsSome(error)
    /\ retry = None
    /\ retry' = Some(shouldRetry(Value(error)))
    /\ UNCHANGED error
    /\ UNCHANGED <<scrapeVars, analyzeVars, routeVars, limitVars>>

-----------------------------------------------------------------------------
(* Properties of scrapeUrl and shouldRetry.                                *)

\* What the log of the current call says.
EventsOf(kinds) == SelectSeq(log, LAMBDA x : x.ev \in kinds)
Requests == Len(EventsOf({"get"}))
Failures == Len(EventsOf({"empty", "error"}))
Delays == [i \in 1..Len(EventsOf({"delay"})) |-> EventsOf({"delay"})[i].ms]
LastEvent == log[Len(log)].ev

\* C1 (as stated): a call given options.retryDelayMs that returns after k
\* retryable failures has waited exactly k times, the n-th time for
\* retryDelayMs * n of the retryDelayMs the caller supplied.
C1_CallerRetryDelayMs ==
    (pc = "returned" /\ IsSome(options.retryDelayMs) /\ options.retryDelay = None)
        => Delays = [n \in 1..Failures |-> Value(options.retryDelayMs) * n]

\* C1 (amended): a call that returns after k failed attempts returns the body of
\* attempt k+1 and has waited exactly k times, the n-th time for D * n, where D
\* is options.retryDelay, or 2000 when that is absent or 0; options.retryDelayMs
\* is not read.
C1_LinearBackoff ==
    pc = "returned" =>
        LET D == IF options.retryDelay \in {None, Some(0)}
                 THEN 2000 ELSE Value(options.retryDelay)
        IN  /\ Requests = Failures + 1
            /\ Delays = [n \in 1..Failures |-> D * n]
            /\ IsSome(result)
            /\ Value(result).html = scrapeText.html

\* 500, 500, success with retryDelay 500: delays of 500 and 1000.
C1_Witness ==
    /\ pc = "returned"
    /\ Requests = 3
    /\ options.retryDelay = Some(500)
    /\ options.retryDelayMs = Some(300)
    /\ Delays = <<500, 1000>>
    /\ lastError = Some([response |-> Some([status |-> 500]), message |-> StatusMessage(500)])

\* The substrings that make a message retryable.
RetrySubstrings ==
    {<<"t","i","m","e","o","u","t">>, <<"e","c","o","n","n","r","e","f","u","s","e","d">>,
     <<"e","c","o","n","n","r","e","s","e","t">>, <<"e","p","i","p","e">>,
     <<"r","a","t","e"," ","l","i","m","i","t">>}

\* A failure the classification rules call non-retryable: a response was
\* received, its status is neither 429 nor >= 500, and the message has none of
\* the retry substrings.
NonRetryable(e) ==
    /\ IsSome(e.response)
    /\ Value(e.response).status # 429
    /\ Value(e.response).status < 500
    /\ \A sub \in RetrySubstrings :
          ~includes(toLowerCase(e.message), sub)

\* C2: once an attempt has failed with a non-retryable failure the call has
\* failed, and that failure is the last thing that happened in it: no delay was
\* started and no request was issued after it, whatever maxRetries is.
C2_NonRetryableAborts ==
    (IsSome(lastError) /\ NonRetryable(Value(lastError))) =>
        /\ pc = "thrown"
        /\ LastEvent = "error"
        /\ Requests = attempt
        /\ Len(Delays) = attempt - 1

\* A 400 on the first attempt of a call allowed 4 attempts.
C2_Witness ==
    /\ pc = "thrown"
    /\ options.maxRetries = Some(4)
    /\ lastError = Some([response |-> Some([status |-> 400]), message |-> StatusMessage(400)])
    /\ log = <<Event("get", 0), Event("error", 0)>>

C4_AttemptCount ==
    (pc = "thrown" /\ IsSome(lastError)) =>
        thrownMessage =
            Some(scrapeText.failedToScrape \o ToStr(Requests) \o scrapeText.attempts
                    \o Value(lastError).message)

\* C5: shouldRetry(error) is true exactly when the error has no response, or
\* its status is 429 or >= 500, or its lower-cased message contains one of the
\* five retry substrings.
C5_ShouldRetry ==
    IsSome(retry) =>
        LET e == Value(error) IN
        Value(retry) <=>
            \/ e.response = None
            \/ IsSome(e.response) /\ Value(e.response).status = 429
            \/ IsSome(e.response) /\ Value(e.response).status >= 500
            \/ \E sub \in RetrySubstrings :
                  includes(toLowerCase(e.message), sub)

\* A 404 whose message holds the substring in capitals is retried; a plain 404
\* is the only kind of error that is not.
C5_Witness ==
    /\ retry = Some(TRUE)
    /\ error = Some([response |-> Some([status |-> 404]), message |-> axiosMessage.reset])


\* The number of requests issued up to entry j of the log.
RequestsUpTo(j) == Len(SelectSeq(SubSeq(log, 1, j), LAMBDA x : x.ev = "get"))

\* C25: a response with an empty body is never returned as a success: a call
\* that returns returns a non-empty body.  The attempt counts as failed with an
\* error that has no response, so it is retryable: while fewer than maxRetries
\* requests have been issued (3 when the option is absent or 0) it is directly
\* followed by the backoff delay D * n, n the number of the attempt and D
\* options.retryDelay (2000 when absent or 0); the empty body of attempt
\* maxRetries ends the call, which throws the 'Failed to scrape URL after ...'
\* error on 'Invalid response format from scraping service'.
C25_EmptyBodyRetried ==
    LET D == IF options.retryDelay \in {None, Some(0)} THEN 2000 ELSE Value(options.retryDelay)
        limit == IF options.maxRetries \in {None, Some(0)} THEN 3 ELSE Value(options.maxRetries)
    IN  /\ pc = "returned" => (LastEvent = "body" /\ Len(Value(result).html) > 0)
        /\ \A j \in 1..Len(log) :
              log[j].ev = "empty" =>
                  IF RequestsUpTo(j) < limit
                  THEN /\ j < Len(log)
                       /\ log[j + 1] = [ev |-> "delay", ms |-> D * RequestsUpTo(j)]
                       /\ pc # "thrown" \/ j + 1 < Len(log)
                  ELSE /\ j = Len(log)
                       /\ pc = "thrown"
                       /\ lastError = Some([response |-> None,
                                            message |-> scrapeText.invalidResponse])
                       /\ thrownMessage =
                              Some(scrapeText.failedToScrape \o ToStr(limit)
                                      \o scrapeText.attempts \o scrapeText.invalidResponse)

\* A default call whose three attempts all got an empty body: delays of 2000 and
\* 4000, then the error.
C25_Witness ==
    /\ pc = "thrown"
    /\ options.maxRetries = None
    /\ options.retryDelay = None
    /\ Len(EventsOf({"empty"})) = 3
    /\ Requests = 3
    /\ Delays = <<2000, 4000>>
    /\ IsSome(thrownMessage)

\* C26 (as stated): for every integer options.maxRetries, 0 and the negative
\* ones included, a call that has ended has issued at least one request and
\* has either returned {html, metadata} or thrown the error 'Failed to scrape
\* URL after N attempts: <last error message>', and no other error.
C26_EndsAfterARequest ==
    pc \in {"returned", "thrown"} =>
        /\ Requests >= 1
        /\ pc = "returned" => IsSome(result)
        /\ pc = "thrown" =>
              /\ IsSome(lastError)
              /\ \E N \in 1..9 :
                    thrownMessage =
                        Some(<<"F","a","i","l","e","d"," ","t","o"," ","s","c","r","a","p","e"," ",
                               "U","R","L"," ","a","f","t","e","r"," ">> \o ToStr(N)
                               \o <<" ","a","t","t","e","m","p","t","s",":"," ">>
                               \o Value(lastError).message)
-----------------------------------------------------------------------------
(* SEOAnalyzer: the string literals of the code.                           *)

\* The issue strings of the title analysis.
titleIssue ==
    [missing |->
      \* "Missing title tag"
      <<"M","i","s","s","i","n","g"," ","t","i","t","l","e"," ","t","a","g">>,
     multiple |->
      \* "Multiple title tags found; only the first will be used"
      <<"M","u","l","t","i","p","l","e"," ","t","i","t","l","e"," ","t","a","g","s"," ","f","o",
        "u","n","d",";"," ","o","n","l","y"," ","t","h","e"," ","f","i","r","s","t"," ","w","i",
        "l","l"," ","b","e"," ","u","s","e","d">>,
     tooShort |->
      \* "Title too short (< 30 characters)"
      <<"T","i","t","l","e"," ","t","o","o"," ","s","h","o","r","t"," ","(","<"," ","3","0"," ",
        "c","h","a","r","a","c","t","e","r","s",")">>,
     tooLong |->
      \* "Title too long (> 60 characters)"
      <<"T","i","t","l","e"," ","t","o","o"," ","l","o","n","g"," ","(",">"," ","6","0"," ","c",
        "h","a","r","a","c","t","e","r","s",")">>]

\* The issue strings of the description analysis.
descriptionIssue ==
    [missing |->
      \* "Missing meta description"
      <<"M","i","s","s","i","n","g"," ","m","e","t","a"," ","d","e","s","c","r","i","p","t","i",
        "o","n">>,
     tooShort |->
      \* "Description too short (< 120 characters)"
      <<"D","e","s","c","r","i","p","t","i","o","n"," ","t","o","o"," ","s","h","o","r","t"," ",
        "(","<"," ","1","2","0"," ","c","h","a","r","a","c","t","e","r","s",")">>,
     tooLong |->
      \* "Description too long (> 160 characters)"
      <<"D","e","s","c","r","i","p","t","i","o","n"," ","t","o","o"," ","l","o","n","g"," ","(",
        ">"," ","1","6","0"," ","c","h","a","r","a","c","t","e","r","s",")">>]

\* The issue strings of analyzeHeadings, and the pieces of its template.
headingIssue ==
    [missingH1 |->
      \* "Missing H1 heading"
      <<"M","i","s","s","i","n","g"," ","H","1"," ","h","e","a","d","i","n","g">>,
     multipleH1 |->
      \* "Multiple H1 headings found"
      <<"M","u","l","t","i","p","l","e"," ","H","1"," ","h","e","a","d","i","n","g","s"," ","f",
        "o","u","n","d">>,
     skippedFrom |->
      \* "Skipped heading level: from H"
      <<"S","k","i","p","p","e","d"," ","h","e","a","d","i","n","g"," ","l","e","v","e","l",":",
        " ","f","r","o","m"," ","H">>,
     to |->
      \* " to H"
      <<" ","t","o"," ","H">>]

\* The strings of analyzeLinks.
linkIssue ==
    [found |->
      \* "Found "
      <<"F","o","u","n","d"," ">>,
     brokenLinks |->
      \* " broken links"
      <<" ","b","r","o","k","e","n"," ","l","i","n","k","s">>,
     noNofollow |->
      \* "External links without nofollow attributes"
      <<"E","x","t","e","r","n","a","l"," ","l","i","n","k","s"," ","w","i","t","h","o","u","t",
        " ","n","o","f","o","l","l","o","w"," ","a","t","t","r","i","b","u","t","e","s">>,
     nofollow |->
      \* "nofollow"
      <<"n","o","f","o","l","l","o","w">>,
     sponsored |->
      \* "sponsored"
      <<"s","p","o","n","s","o","r","e","d">>,
     ugc |->
      \* "ugc"
      <<"u","g","c">>]

\* The pieces of the issue templates of analyzeImages.
imageIssue ==
    [missingDimensions |->
      \* "Image missing dimensions: "
      <<"I","m","a","g","e"," ","m","i","s","s","i","n","g"," ","d","i","m","e","n","s","i","o",
        "n","s",":"," ">>,
     missingAlt |->
      \* " images missing alt text"
      <<" ","i","m","a","g","e","s"," ","m","i","s","s","i","n","g"," ","a","l","t"," ","t","e",
        "x","t">>]

\* The issue strings of analyzePerformance.
performanceIssue ==
    [noDeferred |->
      \* "No deferred or async scripts found"
      <<"N","o"," ","d","e","f","e","r","r","e","d"," ","o","r"," ","a","s","y","n","c"," ","s",
        "c","r","i","p","t","s"," ","f","o","u","n","d">>,
     manyStyles |->
      \* "High number of stylesheet files"
      <<"H","i","g","h"," ","n","u","m","b","e","r"," ","o","f"," ","s","t","y","l","e","s","h",
        "e","e","t"," ","f","i","l","e","s">>]

\* The strings of analyzeSecurity.
securityIssue ==
    [https |->
      \* "https://"
      <<"h","t","t","p","s",":","/","/">>,
     notHttps |->
      \* "Site not served over HTTPS"
      <<"S","i","t","e"," ","n","o","t"," ","s","e","r","v","e","d"," ","o","v","e","r"," ","H",
        "T","T","P","S">>]

\* The issue strings of analyzeTechnicalSEO.
technicalIssue ==
    [viewport |->
      \* "Missing viewport meta tag"
      <<"M","i","s","s","i","n","g"," ","v","i","e","w","p","o","r","t"," ","m","e","t","a"," ",
        "t","a","g">>,
     charset |->
      \* "Missing charset declaration"
      <<"M","i","s","s","i","n","g"," ","c","h","a","r","s","e","t"," ","d","e","c","l","a","r",
        "a","t","i","o","n">>,
     language |->
      \* "Missing language declaration"
      <<"M","i","s","s","i","n","g"," ","l","a","n","g","u","a","g","e"," ","d","e","c","l","a",
        "r","a","t","i","o","n">>,
     doctype |->
      \* "Missing DOCTYPE declaration"
      <<"M","i","s","s","i","n","g"," ","D","O","C","T","Y","P","E"," ","d","e","c","l","a","r",
        "a","t","i","o","n">>]

\* The strings of analyzeAccessibility.
accessibilityIssue ==
    [hashMain |->
      \* "#main"
      <<"#","m","a","i","n">>,
     hashContent |->
      \* "#content"
      <<"#","c","o","n","t","e","n","t">>,
     noSkipLinks |->
      \* "No skip navigation links found"
      <<"N","o"," ","s","k","i","p"," ","n","a","v","i","g","a","t","i","o","n"," ","l","i","n",
        "k","s"," ","f","o","u","n","d">>,
     missingLabels |->
      \* "Some form inputs missing labels"
      <<"S","o","m","e"," ","f","o","r","m"," ","i","n","p","u","t","s"," ","m","i","s","s","i",
        "n","g"," ","l","a","b","e","l","s">>]

\* The issue string of analyzeStructuredData.
structuredDataIssue ==
    [invalid |->
      \* "Invalid JSON-LD structured data"
      <<"I","n","v","a","l","i","d"," ","J","S","O","N","-","L","D"," ","s","t","r","u","c","t",
        "u","r","e","d"," ","d","a","t","a">>]

\* The strings of analyzeMobileFriendliness and analyzeTapTargets.
mobileIssue ==
    [viewport |->
      \* "Missing viewport meta tag"
      <<"M","i","s","s","i","n","g"," ","v","i","e","w","p","o","r","t"," ","m","e","t","a"," ",
        "t","a","g">>,
     deviceWidth |->
      \* "width=device-width"
      <<"w","i","d","t","h","=","d","e","v","i","c","e","-","w","i","d","t","h">>,
     viewportWidth |->
      \* "Viewport meta tag missing width=device-width"
      <<"V","i","e","w","p","o","r","t"," ","m","e","t","a"," ","t","a","g"," ","m","i","s","s",
        "i","n","g"," ","w","i","d","t","h","=","d","e","v","i","c","e","-","w","i","d","t","h">>,
     tapTargets |->
      \* " tap targets too small"
      <<" ","t","a","p"," ","t","a","r","g","e","t","s"," ","t","o","o"," ","s","m","a","l","l">>,
     minSize |->
      \* "44px"
      <<"4","4","p","x">>]

\* The issue strings of analyzeContentQuality.
contentIssue ==
    [length |->
      \* "Content length below recommended minimum (300 words)"
      <<"C","o","n","t","e","n","t"," ","l","e","n","g","t","h"," ","b","e","l","o","w"," ","r",
        "e","c","o","m","m","e","n","d","e","d"," ","m","i","n","i","m","u","m"," ","(","3","0",
        "0"," ","w","o","r","d","s",")">>,
     paragraphs |->
      \* "Too few paragraphs"
      <<"T","o","o"," ","f","e","w"," ","p","a","r","a","g","r","a","p","h","s">>]

\* The substrings calculateOverallScore looks for.
scoreWord ==
    [missing |->
      \* "Missing"
      <<"M","i","s","s","i","n","g">>,
     multiple |->
      \* "Multiple"
      <<"M","u","l","t","i","p","l","e">>]

\* The domains isSocialMediaLink looks for.
socialDomains ==
    <<\* "facebook.com"
      <<"f","a","c","e","b","o","o","k",".","c","o","m">>,
      \* "twitter.com"
      <<"t","w","i","t","t","e","r",".","c","o","m">>,
      \* "linkedin.com"
      <<"l","i","n","k","e","d","i","n",".","c","o","m">>,
      \* "instagram.com"
      <<"i","n","s","t","a","g","r","a","m",".","c","o","m">>,
      \* "pinterest.com"
      <<"p","i","n","t","e","r","e","s","t",".","c","o","m">>,
      \* "youtube.com"
      <<"y","o","u","t","u","b","e",".","c","o","m">>>>

-----------------------------------------------------------------------------
(* SEOAnalyzer: the section analyzers.  A document is what the selectors   *)
(* of the code see of it:                                                  *)
(*   titles       text() of every <title>, in document order               *)
(*   description  content of the first meta[name="description"]            *)
(*   keywords, robots, canonical, viewport, charset, lang                  *)
(*                the attribute the code reads from the first match        *)
(*   headings     [level, text] of every h1..h6, in document order         *)
(*   anchors      [href, rel, text] of every <a>                           *)
(*   images       [src, alt, width, height, context] of every <img>        *)
(* and so on; an attribute that is absent is None.                         *)

\* Array.prototype.filter
filter(list, Keep(_)) == SelectSeq(list, Keep)

\* Array.prototype.map
map(list, F(_)) == [i \in 1..Len(list) |-> F(list[i])]

\* The issues pushed by `if (cond) issues.push(issue)`.
pushIf(cond, issue) == IF cond THEN <<issue>> ELSE <<>>

titleTooShortInclusive(title) == Len(title) <= 30

\* title.length < 30
titleTooShort(title) == Len(title) < 30

\* title.length > 60
titleTooLong(title) == Len(title) > 60

\* metaDescription.length < 120
descriptionTooShort(metaDescription) == Len(metaDescription) < 120

\* metaDescription.length > 160
descriptionTooLong(metaDescription) == Len(metaDescription) > 160

analyzeMetadata(d) ==
    LET titles == d.titles
        \* $('title').first().text(): the empty string when there is no title
        title == IF Len(titles) = 0 THEN <<>> ELSE titles[1]
        metaDescription == d.description
        metaKeywords == d.keywords
        titleIssues ==
            (IF Len(titles) = 0 THEN <<titleIssue.missing>>
             ELSE IF Len(titles) > 1 THEN <<titleIssue.multiple>>
             ELSE <<>>)
            \o (IF Len(title) = 0 THEN <<titleIssue.missing>>
                ELSE pushIf(titleTooShort(title), titleIssue.tooShort)
                     \o pushIf(titleTooLong(title), titleIssue.tooLong))
        descriptionIssues ==
            IF ~Truthy(metaDescription) THEN <<descriptionIssue.missing>>
            ELSE pushIf(descriptionTooShort(Value(metaDescription)), descriptionIssue.tooShort)
                 \o pushIf(descriptionTooLong(Value(metaDescription)), descriptionIssue.tooLong)
    IN  [title |-> [content |-> title, length |-> Len(title), issues |-> titleIssues],
         description |->
             [content |-> metaDescription,
              length |-> IF Truthy(metaDescription) THEN Len(Value(metaDescription)) ELSE 0,
              issues |-> descriptionIssues],
         keywords |->
             IF Truthy(metaKeywords) THEN map(split(Value(metaKeywords), ","), trim) ELSE <<>>,
         canonical |-> IF Truthy(d.canonical) THEN d.canonical ELSE None,
         robots |-> IF Truthy(d.robots) THEN d.robots ELSE None]

\* `Skipped heading level: from H${previousLevel} to H${currentLevel}`
skippedLevel(previousLevel, currentLevel) ==
    headingIssue.skippedFrom \o ToStr(previousLevel) \o headingIssue.to \o ToStr(currentLevel)

RECURSIVE hierarchyIssuesFromFirst(_, _)
hierarchyIssuesFromFirst(levels, previousLevel) ==
    IF levels = <<>> THEN <<>>
    ELSE pushIf(Head(levels) - previousLevel > 1, skippedLevel(previousLevel, Head(levels)))
         \o hierarchyIssuesFromFirst(Tail(levels), previousLevel)

\* The hierarchy walk over the headings left, the previous level being known.
RECURSIVE hierarchyIssues(_, _)
hierarchyIssues(levels, previousLevel) ==
    IF levels = <<>> THEN <<>>
    ELSE LET currentLevel == Head(levels)
         IN  pushIf(currentLevel - previousLevel > 1, skippedLevel(previousLevel, currentLevel))
             \o hierarchyIssues(Tail(levels), currentLevel)

analyzeHeadings(d) ==
    LET h(i) == map(filter(d.headings, LAMBDA e : e.level = i),
                    LAMBDA e : [text |-> trim(e.text), length |-> Len(trim(e.text))])
    IN  [h1 |-> h(1), h2 |-> h(2), h3 |-> h(3), h4 |-> h(4), h5 |-> h(5), h6 |-> h(6),
         issues |->
             pushIf(Len(h(1)) = 0, headingIssue.missingH1)
             \o pushIf(Len(h(1)) > 1, headingIssue.multipleH1)
             \o hierarchyIssues(map(d.headings, LAMBDA e : e.level), 1)]

\* The issues the loop over the images pushes, one image at a time.
RECURSIVE dimensionIssues(_)
dimensionIssues(imgs) ==
    IF imgs = <<>> THEN <<>>
    ELSE pushIf(~Truthy(Head(imgs).width) \/ ~Truthy(Head(imgs).height),
                imageIssue.missingDimensions \o Interpolate(Head(imgs).src))
         \o dimensionIssues(Tail(imgs))

missingAltIssuesAlways(withoutAlt) == <<ToStr(Len(withoutAlt)) \o imageIssue.missingAlt>>

\* if (images.withoutAlt.length > 0) images.issues.push(`${...length} images missing alt text`)
missingAltIssues(withoutAlt) ==
    pushIf(Len(withoutAlt) > 0, ToStr(Len(withoutAlt)) \o imageIssue.missingAlt)

analyzeImages(d) ==
    LET withoutAlt == map(filter(d.images, LAMBDA e : ~Truthy(e.alt)),
                          LAMBDA e : [src |-> e.src, context |-> e.context])
    IN  [total |-> Len(d.images),
         withAlt |-> Len(filter(d.images, LAMBDA e : Truthy(e.alt))),
         withoutAlt |-> withoutAlt,
         large |-> <<>>,
         issues |->
             dimensionIssues(d.images)
             \o missingAltIssues(withoutAlt)]

analyzeTechnicalSEO(d) ==
    LET viewport == d.viewport
        charset == d.charset
        language == d.lang
        \* $.root().find('doctype'): the elements whose tag name is doctype; the
        \* <!DOCTYPE> declaration is a directive node, which find() never matches
        doctype == d.doctypeElements > 0
    IN  [viewport |-> viewport, charset |-> charset, language |-> language, doctype |-> doctype,
         issues |->
             pushIf(~Truthy(viewport), technicalIssue.viewport)
             \o pushIf(~Truthy(charset), technicalIssue.charset)
             \o pushIf(~Truthy(language), technicalIssue.language)
             \o pushIf(~doctype, technicalIssue.doctype)]

analyzeAccessibility(d) ==
    LET \* a[href^="#main"], a[href^="#content"]
        skipLinks ==
            Len(filter(d.anchors,
                       LAMBDA e : /\ IsSome(e.href)
                                  /\ \/ startsWith(Value(e.href), accessibilityIssue.hashMain)
                                     \/ startsWith(Value(e.href), accessibilityIssue.hashContent)))
                > 0
        \* $('form label')
        formLabels == d.formLabels
        \* $('form input')
        formInputs == Len(filter(d.controls, LAMBDA e : e.tag = "input" /\ e.inForm))
    IN  [ariaAttributes |-> d.ariaElements,
         skipLinks |-> skipLinks,
         formLabels |-> formLabels,
         formInputs |-> formInputs,
         issues |->
             pushIf(~skipLinks, accessibilityIssue.noSkipLinks)
             \o pushIf(formInputs > formLabels, accessibilityIssue.missingLabels)]

-----------------------------------------------------------------------------
(* new URL(input, base).  The parser is modelled on the addresses the       *)
(* documents of the model hold: an address with a scheme (http and https    *)
(* with an authority, any other scheme without a host), and, against a      *)
(* base, a scheme-relative, path-absolute, query-only, fragment-only or     *)
(* path-relative reference.  Dot segments and percent-encoding are not      *)
(* modelled.  The answer is None when the constructor throws.               *)

\* The first position of `s` holding a character of `set`, or Len(s) + 1.
firstIndex(s, set) ==
    IF \E i \in 1..Len(s) : s[i] \in set
    THEN CHOOSE i \in 1..Len(s) : s[i] \in set /\ \A j \in 1..(i - 1) : s[j] \notin set
    ELSE Len(s) + 1

\* The last position of `s` holding a character of `set`, or 0.
lastIndex(s, set) ==
    IF \E i \in 1..Len(s) : s[i] \in set
    THEN CHOOSE i \in 1..Len(s) : s[i] \in set /\ \A j \in (i + 1)..Len(s) : s[j] \notin set
    ELSE 0

Letters == CharsOf(Upper) \cup CharsOf(Lower)
\* Characters a host may not hold.
ForbiddenHost == {" ", "<", ">", "#", "/", "?"}
SpecialSchemes == {<<"h","t","t","p">>, <<"h","t","t","p","s">>}

\* What follows `scheme://`, or the `//` of a scheme-relative reference.
authorityURL(scheme, s) ==
    LET end == firstIndex(s, {"/", "?", "#"})
        authority == toLowerCase(SubSeq(s, 1, end - 1))
        tail == SubSeq(s, end, Len(s))
        hostname == SubSeq(authority, 1, firstIndex(authority, {":"}) - 1)
    IN  IF hostname = <<>> \/ \E i \in 1..Len(hostname) : hostname[i] \in ForbiddenHost
        THEN None
        ELSE Some([scheme |-> scheme,
                   hostname |-> hostname,
                   host |-> authority,
                   path |-> IF tail = <<>> \/ Head(tail) # "/" THEN <<"/">> \o tail ELSE tail])

parseURL(input, base) ==
    LET colon == firstIndex(input, {":"})
        hasScheme == /\ colon > 1
                     /\ colon <= Len(input)
                     /\ \A k \in 1..(colon - 1) : input[k] \in Letters
        scheme == toLowerCase(SubSeq(input, 1, colon - 1))
        rest == SubSeq(input, colon + 1, Len(input))
    IN  IF hasScheme
        THEN IF scheme \in SpecialSchemes
             THEN authorityURL(scheme, SubSeq(rest, firstIndex(rest, Chars \ {"/"}), Len(rest)))
             ELSE Some([scheme |-> scheme, hostname |-> <<>>, host |-> <<>>, path |-> rest])
        ELSE IF ~IsSome(base) THEN None
        ELSE LET b == Value(base)
                 pathOnly == SubSeq(b.path, 1, firstIndex(b.path, {"?", "#"}) - 1)
             IN  IF startsWith(input, <<"/", "/">>)
                 THEN authorityURL(b.scheme, SubSeq(input, 3, Len(input)))
                 ELSE IF startsWith(input, <<"/">>)
                 THEN Some([b EXCEPT !.path = input])
                 ELSE IF startsWith(input, <<"#">>)
                 THEN Some([b EXCEPT !.path =
                               SubSeq(b.path, 1, firstIndex(b.path, {"#"}) - 1) \o input])
                 ELSE IF startsWith(input, <<"?">>)
                 THEN Some([b EXCEPT !.path = pathOnly \o input])
                 ELSE Some([b EXCEPT !.path =
                               SubSeq(pathOnly, 1, lastIndex(pathOnly, {"/"})) \o input])

\* URL.prototype.href
hrefOf(u) ==
    IF u.scheme \in SpecialSchemes
    THEN u.scheme \o <<":", "/", "/">> \o u.host \o u.path
    ELSE u.scheme \o <<":">> \o u.path

isSocialMediaLink(hostname) ==
    \E k \in 1..Len(socialDomains) : includes(hostname, socialDomains[k])

linksTotalInternalOnly(internal, external) == Len(internal)

\* links.total = links.internal.length + links.external.length
linksTotal(internal, external) == Len(internal) + Len(external)

missingNofollowOnAnyPage(external, nofollow) == nofollow = 0

\* links.external.length > 0 && links.attributes.nofollow === 0
missingNofollow(external, nofollow) == Len(external) > 0 /\ nofollow = 0

pushedToExternalUnlessSocial(hostname, baseHostname) ==
    hostname # baseHostname /\ ~isSocialMediaLink(hostname)

\* The else branch of `if (url.hostname === baseHostname)`, which ends with
\* links.external.push(linkInfo) for every link that reaches it.
pushedToExternal(hostname, baseHostname) == hostname # baseHostname

analyzeLinks(d, baseUrl) ==
    LET base == parseURL(baseUrl, None)
        baseHostname == Value(base).hostname
        \* attr('rel') || ''
        relOf(e) == IF Truthy(e.rel) THEN Value(e.rel) ELSE <<>>
        urlOf(e) == parseURL(Value(e.href), base)
        parsed(e) == Truthy(e.href) /\ IsSome(urlOf(e))
        linkInfo(e) == [url |-> hrefOf(Value(urlOf(e))), text |-> trim(e.text), rel |-> relOf(e)]
        isInternal(e) == parsed(e) /\ Value(urlOf(e)).hostname = baseHostname
        isExternal(e) == parsed(e) /\ pushedToExternal(Value(urlOf(e)).hostname, baseHostname)
        internal == map(filter(d.anchors, isInternal), linkInfo)
        external == map(filter(d.anchors, isExternal), linkInfo)
        social ==
            map(filter(d.anchors,
                       LAMBDA e : /\ parsed(e)
                                  /\ Value(urlOf(e)).hostname # baseHostname
                                  /\ isSocialMediaLink(Value(urlOf(e)).hostname)),
                linkInfo)
        broken ==
            map(filter(d.anchors, LAMBDA e : ~parsed(e)),
                LAMBDA e : IF ~Truthy(e.href)
                           THEN [text |-> trim(e.text), href |-> None,
                                 reason |-> "Missing href attribute"]
                           ELSE [text |-> trim(e.text), href |-> e.href,
                                 reason |-> "Invalid URL format"])
        count(token) == Len(filter(d.anchors, LAMBDA e : parsed(e) /\ includes(relOf(e), token)))
        nofollow == count(linkIssue.nofollow)
    IN  [internal |-> internal,
         external |-> external,
         broken |-> broken,
         social |-> social,
         attributes |-> [nofollow |-> nofollow,
                         sponsored |-> count(linkIssue.sponsored),
                         ugc |-> count(linkIssue.ugc)],
         total |-> linksTotal(internal, external),
         issues |->
             pushIf(Len(broken) > 0, linkIssue.found \o ToStr(Len(broken)) \o linkIssue.brokenLinks)
             \o pushIf(missingNofollow(external, nofollow), linkIssue.noNofollow)]

-----------------------------------------------------------------------------
(* The remaining section analyzers.                                        *)

analyzePerformance(d) ==
    LET totalScripts == Len(d.scripts)
        \* attr('defer') and attr('async') give the attribute's name when it is present
        deferredScripts == Len(filter(d.scripts, LAMBDA e : e.defer))
        asyncScripts == Len(filter(d.scripts, LAMBDA e : e.async))
        totalStyles == d.stylesheets
    IN  [resourceHints |-> [preload |-> d.preload, preconnect |-> d.preconnect,
                            prefetch |-> d.prefetch],
         deferredScripts |-> deferredScripts,
         asyncScripts |-> asyncScripts,
         totalScripts |-> totalScripts,
         totalStyles |-> totalStyles,
         issues |->
             pushIf(totalScripts > 0 /\ deferredScripts = 0 /\ asyncScripts = 0,
                    performanceIssue.noDeferred)
             \o pushIf(totalStyles > 5, performanceIssue.manyStyles)]

analyzeSecurity(url) ==
    LET https == startsWith(url, securityIssue.https)
    IN  [https |-> https, headers |-> <<>>, issues |-> pushIf(~https, securityIssue.notHttps)]

\* script[type="application/ld+json"]: what JSON.parse makes of the body is given
\* with the script: it throws (or yields null, whose ['@type'] throws), or it
\* yields an object whose @type is e.json.type.
analyzeStructuredData(d) ==
    LET blocks == filter(d.scripts, LAMBDA e : IsSome(e.json))
    IN  [types |-> map(filter(blocks, LAMBDA e : Value(e.json).parses /\ Truthy(Value(e.json).type)),
                       LAMBDA e : Value(Value(e.json).type)),
         issues |-> map(filter(blocks, LAMBDA e : ~Value(e.json).parses),
                        LAMBDA e : structuredDataIssue.invalid)]

\* $(elem).css('width') < '44px' || $(elem).css('height') < '44px': css() gives the
\* inline style's value or undefined, and undefined < '44px' is false.
isSmall(e) ==
    \/ IsSome(e.width) /\ stringLess(Value(e.width), mobileIssue.minSize)
    \/ IsSome(e.height) /\ stringLess(Value(e.height), mobileIssue.minSize)

\* a, button, input, select, textarea
analyzeTapTargets(d) ==
    LET targets == map(d.anchors, LAMBDA e : [width |-> e.width, height |-> e.height])
                   \o map(d.controls, LAMBDA e : [width |-> e.width, height |-> e.height])
    IN  [total |-> Len(targets), small |-> Len(filter(targets, isSmall))]

analyzeMobileFriendliness(d) ==
    LET viewport == d.viewport
        tapTargets == analyzeTapTargets(d)
    IN  [viewport |-> viewport,
         touchIcons |-> d.touchIcons,
         tapTargets |-> tapTargets,
         issues |->
             (IF ~Truthy(viewport) THEN <<mobileIssue.viewport>>
              ELSE pushIf(~includes(Value(viewport), mobileIssue.deviceWidth),
                          mobileIssue.viewportWidth))
             \o pushIf(tapTargets.small > 0,
                       ToStr(tapTargets.small) \o mobileIssue.tapTargets)]

\* text.trim().split(/\s+/).length
countWords(text) == Len(splitWhitespace(trim(text)))

analyzeContentQuality(d) ==
    LET wordCount == countWords(d.bodyText)
    IN  [wordCount |-> wordCount,
         paragraphs |-> d.paragraphs,
         lists |-> d.lists,
         tables |-> d.tables,
         issues |->
             pushIf(wordCount < 300, contentIssue.length)
             \o pushIf(d.paragraphs < 3, contentIssue.paragraphs)]

-----------------------------------------------------------------------------
(* Recommendations, score and the report.                                  *)

\* Categories, priorities and solutions are passed on and never inspected: they
\* are plain strings here.
recommendationBySeverity(category, priority, issue, solution) ==
    [category |-> category,
     priority |-> IF includes(issue, scoreWord.missing) THEN "High" ELSE "Medium",
     issue |-> issue, solution |-> solution]

recommendation(category, priority, issue, solution) ==
    [category |-> category, priority |-> priority, issue |-> issue, solution |-> solution]

oneRecommendation(issues, category, priority, solution) ==
    pushIf(Len(issues) > 0,
           [category |-> category, priority |-> priority, issue |-> join(issues, <<",", " ">>),
            solution |-> solution])

\* issues.forEach(issue => recommendations.push({category, priority, issue, solution}))
perIssueRecommendations(issues, category, priority, solution) ==
    map(issues, LAMBDA issue : recommendation(category, priority, issue, solution))

generateRecommendations(results) ==
    pushIf(Len(results.metadata.title.issues) > 0,
           recommendation("Metadata", "High", join(results.metadata.title.issues, <<",", " ">>),
               "Optimize title tag length (30-60 characters) and include primary keyword"))
    \o pushIf(Len(results.metadata.description.issues) > 0,
           recommendation("Metadata", "High",
               join(results.metadata.description.issues, <<",", " ">>),
               "Optimize meta description length (120-160 characters) and include call-to-action"))
    \o perIssueRecommendations(results.headings.issues, "Content Structure", "Medium",
                               "Implement proper heading hierarchy (H1-H6)")
    \o perIssueRecommendations(results.images.issues, "Images", "Medium",
                               "Add descriptive alt text and specify image dimensions")
    \o perIssueRecommendations(results.technical.issues, "Technical SEO", "High",
                               "Implement proper technical SEO elements")

scoredWithLinks(results) ==
    results.metadata.title.issues \o results.metadata.description.issues
    \o results.headings.issues \o results.images.issues \o results.technical.issues
    \o results.accessibility.issues \o results.links.issues

\* The issues calculateOverallScore flattens.
scoredIssues(results) ==
    results.metadata.title.issues \o results.metadata.description.issues
    \o results.headings.issues \o results.images.issues \o results.technical.issues
    \o results.accessibility.issues

deductionCumulative(issue) ==
    (IF includes(issue, scoreWord.missing) THEN 5 ELSE 0)
    + (IF includes(issue, scoreWord.multiple) THEN 3 ELSE 0)
    + (IF ~includes(issue, scoreWord.missing) /\ ~includes(issue, scoreWord.multiple)
       THEN 2 ELSE 0)

\* What one issue takes off the score.
deduction(issue) ==
    IF includes(issue, scoreWord.missing) THEN 5
    ELSE IF includes(issue, scoreWord.multiple) THEN 3
    ELSE 2

\* issues.forEach(...), starting from `score`.
RECURSIVE deduct(_, _)
deduct(issues, score) ==
    IF issues = <<>> THEN score ELSE deduct(Tail(issues), score - deduction(Head(issues)))

clampAbove(score) == IF score > 100 THEN 100 ELSE score

\* Math.max(0, Math.min(100, score))
clamp(score) ==
    LET min == IF score > 100 THEN 100 ELSE score
    IN  IF min < 0 THEN 0 ELSE min

scoreWithClock(results) == clamp(deduct(scoredIssues(results), 100) - results.timestamp)

calculateOverallScore(results) == clamp(deduct(scoredIssues(results), 100))

\* "SEO analysis failed: "
strAnalysisFailed ==
    <<"S","E","O"," ","a","n","a","l","y","s","i","s"," ","f","a","i","l","e","d",":"," ">>

\* "Invalid URL": the message of the TypeError new URL() throws
msgInvalidUrl ==
    <<"I","n","v","a","l","i","d"," ","U","R","L">>

\* The sections of the report, before recommendations and score are filled in.
sections(d, now) ==
    [url |-> d.url,
     timestamp |-> now,
     metadata |-> analyzeMetadata(d),
     headings |-> analyzeHeadings(d),
     links |-> analyzeLinks(d, d.url),
     images |-> analyzeImages(d),
     performance |-> analyzePerformance(d),
     security |-> analyzeSecurity(d.url),
     technical |-> analyzeTechnicalSEO(d),
     accessibility |-> analyzeAccessibility(d),
     structuredData |-> analyzeStructuredData(d),
     mobile |-> analyzeMobileFriendliness(d),
     contentQuality |-> analyzeContentQuality(d),
     recommendations |-> <<>>]

analyzeKeepingSections(d, now) ==
    [ok |-> TRUE,
     results |-> [url |-> d.url, timestamp |-> now, metadata |-> analyzeMetadata(d),
                  headings |-> analyzeHeadings(d)]]

\* results.recommendations = this.generateRecommendations(results)
withRecommendations(results) ==
    [results EXCEPT !.recommendations = generateRecommendations(results)]

\* results.score = this.calculateOverallScore(results)
withScore(results) == results @@ [score |-> calculateOverallScore(results)]

\* analyze(html, url, options): the report, or the error thrown.  The only
\* statement of the try block that throws on a parsed document is
\* new URL(baseUrl) in analyzeLinks.
analyze(d, now) ==
    IF ~IsSome(parseURL(d.url, None))
    THEN [ok |-> FALSE, message |-> strAnalysisFailed \o msgInvalidUrl]
    ELSE [ok |-> TRUE, results |-> withScore(withRecommendations(sections(d, now)))]
-----------------------------------------------------------------------------
(* The documents analyze is given.                                         *)

\* The longest run of images, and of headings, of a document.
MaxImages == 12
MaxHeadings == 3
\* The most anchors of a document whose links vary.
MaxAnchors == 2
\* The clock values new Date() may give.
MaxTime == 2
\* The most analyze calls of one run.
MaxCalls == 3

\* A text of n characters.
Txt(n) == [i \in 1..n |-> "x"]

\* n copies of x.
Repeat(x, n) == [i \in 1..n |-> x]

\* All sequences over S of length at most n.
SeqsUpTo(S, n) == UNION {[1..k -> S] : k \in 0..n}

\* Texts the pages of the model hold.
pageText ==
    [https |->
      \* "https://example.com/"
      <<"h","t","t","p","s",":","/","/","e","x","a","m","p","l","e",".","c","o","m","/">>,
     http |->
      \* "http://example.com/a"
      <<"h","t","t","p",":","/","/","e","x","a","m","p","l","e",".","c","o","m","/","a">>,
     noScheme |->
      \* "example.com"
      <<"e","x","a","m","p","l","e",".","c","o","m">>,
     src |->
      \* "a.png"
      <<"a",".","p","n","g">>,
     srcMissing |->
      \* "Missing.png"
      <<"M","i","s","s","i","n","g",".","p","n","g">>,
     srcBoth |->
      \* "Multiple-Missing.png"
      <<"M","u","l","t","i","p","l","e","-","M","i","s","s","i","n","g",".","p","n","g">>,
     alt |->
      \* "logo"
      <<"l","o","g","o">>,
     size |->
      \* "10"
      <<"1","0">>,
     heading |->
      \* " Top "
      <<" ","T","o","p"," ">>,
     go |->
      \* " go "
      <<" ","g","o"," ">>,
     skip |->
      \* "#main"
      <<"#","m","a","i","n">>,
     keywords |->
      \* "seo, check"
      <<"s","e","o",","," ","c","h","e","c","k">>,
     charset |->
      \* "utf-8"
      <<"u","t","f","-","8">>,
     lang |->
      \* "en"
      <<"e","n">>,
     body |->
      \* "Top go"
      <<"T","o","p"," ","g","o">>]

\* Addresses and rel values of the anchors of the model.
linkText ==
    [internal |->
      \* "/about"
      <<"/","a","b","o","u","t">>,
     external |->
      \* "https://other.org/"
      <<"h","t","t","p","s",":","/","/","o","t","h","e","r",".","o","r","g","/">>,
     social |->
      \* "https://twitter.com/seo"
      <<"h","t","t","p","s",":","/","/","t","w","i","t","t","e","r",".","c","o","m","/","s","e",
        "o">>,
     invalid |->
      \* "http://"
      <<"h","t","t","p",":","/","/">>,
     mailto |->
      \* "mailto:a@example.com"
      <<"m","a","i","l","t","o",":","a","@","e","x","a","m","p","l","e",".","c","o","m">>,
     noopener |->
      \* "noopener"
      <<"n","o","o","p","e","n","e","r">>]

Image(src, alt, width, height) ==
    [src |-> src, alt |-> alt, width |-> width, height |-> height, context |-> "<p>"]
Anchor(href, rel) ==
    [href |-> href, rel |-> rel, text |-> pageText.go, width |-> None, height |-> None]
Control(tag, inForm) == [tag |-> tag, inForm |-> inForm, width |-> None, height |-> None]

\* A page on which the analyzers find little to report.
CleanDoc ==
    [url |-> pageText.https,
     titles |-> <<Txt(45)>>,
     description |-> Some(Txt(140)),
     keywords |-> Some(pageText.keywords),
     canonical |-> None,
     robots |-> None,
     headings |-> <<[level |-> 1, text |-> pageText.heading]>>,
     anchors |-> <<Anchor(Some(pageText.skip), None)>>,
     images |-> <<>>,
     preload |-> <<>>, preconnect |-> <<>>, prefetch |-> <<>>,
     scripts |-> <<>>,
     stylesheets |-> 1,
     viewport |-> Some(mobileIssue.deviceWidth),
     charset |-> Some(pageText.charset),
     lang |-> Some(pageText.lang),
     doctype |-> TRUE,
     doctypeElements |-> 0,
     controls |-> <<>>,
     formLabels |-> 0,
     ariaElements |-> 0,
     touchIcons |-> 0,
     bodyText |-> pageText.body,
     paragraphs |-> 0, lists |-> 0, tables |-> 0]

\* A page with none of the elements the analyzers look for.
BareDoc ==
    [CleanDoc EXCEPT !.titles = <<>>, !.description = None, !.keywords = None,
                     !.headings = <<>>, !.anchors = <<>>, !.viewport = None,
                     !.charset = None, !.lang = None, !.doctype = FALSE,
                     !.controls = <<Control("input", TRUE)>>, !.bodyText = <<>>]

\* Titles: none, one of a length around the limits, or two.
TitleInputs ==
    {<<>>} \cup {<<Txt(n)>> : n \in {0, 1, 29, 30, 45, 60, 61, 70}}
           \cup {<<Txt(a), Txt(b)>> : a, b \in {0, 45}}

\* Descriptions: none, or one of a length around the limits.
DescriptionInputs == {None} \cup {Some(Txt(n)) : n \in {0, 1, 119, 120, 140, 160, 161}}

\* Body texts: empty, whitespace only, and words with single, repeated, leading
\* and trailing whitespace between them.
BodyInputs ==
    {<<>>, <<" ">>, <<" ", "\n", "\t">>, <<"a">>, pageText.body,
     <<" ", "a", " ", " ", "b", "\n">>, <<"a", "\t", "b", " ", "c">>}

\* Anchors: every sequence of up to MaxAnchors anchors, each with no href or an
\* internal, external, social, unparsable or mailto address, and with no rel,
\* rel="nofollow" or rel="noopener".
AnchorInputs ==
    SeqsUpTo({Anchor(href, rel) :
                 href \in {None, Some(linkText.internal), Some(linkText.external),
                           Some(linkText.social), Some(linkText.invalid),
                           Some(linkText.mailto)},
                 rel \in {None, Some(linkIssue.nofollow), Some(linkText.noopener)}},
             MaxAnchors)

\* The anchors of a page that is itself on a social media host: links to its
\* own host, relative links and links to another host.
SocialPageAnchors ==
    SeqsUpTo({Anchor(Some(href), None) :
                 href \in {linkText.social, linkText.internal, linkText.external}},
             MaxAnchors)

\* Headings: every sequence of up to MaxHeadings levels.
HeadingInputs ==
    {map(levels, LAMBDA l : [level |-> l, text |-> pageText.heading]) :
        levels \in SeqsUpTo({1, 2, 3, 5}, MaxHeadings)}

\* Images: every sequence of up to two, and runs of up to MaxImages of one kind.
ImageInputs ==
    LET alt == Some(pageText.alt)
        size == Some(pageText.size)
        kinds == {Image(Some(pageText.src), alt, size, size),
                  Image(Some(pageText.src), None, size, size),
                  Image(Some(pageText.src), alt, None, size),
                  Image(Some(pageText.srcMissing), None, size, None),
                  Image(Some(pageText.srcBoth), Some(<<>>), None, None),
                  Image(None, alt, size, Some(<<>>))}
    IN  SeqsUpTo(kinds, 2) \cup {Repeat(img, n) : img \in kinds, n \in 0..MaxImages}

\* The documents analyze is run on: each family varies one part of a page.
Documents ==
    {[CleanDoc EXCEPT !.titles = t, !.description = dsc] :
        t \in TitleInputs, dsc \in DescriptionInputs}
    \cup {[CleanDoc EXCEPT !.headings = h] : h \in HeadingInputs}
    \cup {[CleanDoc EXCEPT !.anchors = a] : a \in AnchorInputs}
    \cup {[base EXCEPT !.images = im] : base \in {CleanDoc, BareDoc}, im \in ImageInputs}
    \cup {[CleanDoc EXCEPT !.viewport = v, !.charset = c, !.lang = l, !.doctypeElements = n,
                           !.doctype = dt] :
            v \in {None, Some(<<>>), Some(mobileIssue.deviceWidth)},
            c \in {None, Some(pageText.charset)},
            l \in {None, Some(pageText.lang)},
            n \in {0, 1},
            dt \in BOOLEAN}
    \cup {[CleanDoc EXCEPT !.bodyText = t] : t \in BodyInputs}
    \cup {[CleanDoc EXCEPT !.url = linkText.social, !.anchors = a] : a \in SocialPageAnchors}
    \cup {[base EXCEPT !.url = u] :
            base \in {CleanDoc, BareDoc},
            u \in {pageText.https, pageText.http, pageText.noScheme}}

\* The readings of the clock an analyze call is made at: the first and the last.
Times == {1, MaxTime}

\* The options object of an analyze call; analyze never reads it.
AnalysisOptions ==
    {[includeImages |-> None, includeLinks |-> None, includePerformance |-> None],
     [includeImages |-> Some(FALSE), includeLinks |-> Some(FALSE),
      includePerformance |-> Some(FALSE)]}

\* The documents of a run of several calls.
SessionDocuments ==
    {CleanDoc, BareDoc,
     [CleanDoc EXCEPT !.url = pageText.noScheme],
     [CleanDoc EXCEPT !.headings = <<[level |-> 3, text |-> pageText.heading]>>,
                      !.images = <<Image(Some(pageText.srcMissing), None, None, None)>>]}

analyzeCalledHonouringOptions(d, opts, now) ==
    /\ doc' = d
    /\ report' = Some(analyze(IF opts.includeImages = Some(FALSE)
                              THEN [d EXCEPT !.images = <<>>] ELSE d, now))
    /\ calls' = Append(calls, [doc |-> d, options |-> opts, report |-> Value(report')])

\* analyze(html, url, options) runs on the analyzer at the clock value `now`.
\* The analyzer object has no field and analyze writes to nothing but its
\* locals, so a call leaves nothing behind but the history of the model.
analyzeCalled(d, opts, now) ==
    /\ doc' = d
    /\ report' = Some(analyze(d, now))
    /\ calls' = Append(calls, [doc |-> d, options |-> opts, report |-> Value(report')])

\* A caller calls analyze(html, url, options).
AnalyzeCall(d, opts, now) ==
    /\ Len(calls) < MaxCalls
    /\ analyzeCalled(d, opts, now)
    /\ UNCHANGED <<scrapeVars, retryVars, routeVars, limitVars>>

\* The one call on the document of a run that analyzes a single document.
Analyze(now) ==
    /\ report = None
    /\ AnalyzeCall(doc, [includeImages |-> None], now)
-----------------------------------------------------------------------------
(* Properties of the analysis engine.                                      *)

\* analyze has returned a report.
Reported == IsSome(report) /\ Value(report).ok
Results == Value(report).results
Score == Results.score
Contains(list, x) == \E i \in 1..Len(list) : list[i] = x
Count(list, Keep(_)) == Cardinality({i \in 1..Len(list) : Keep(list[i])})

\* C6: the score of every report is a number between 0 and 100, however many
\* issues the sections hold.
C6_ScoreInRange == Reported => Score \in 0..100

\* A page whose deductions add up to more than 100.
C6_Witness ==
    /\ Reported
    /\ Score = 0
    /\ Len(Results.images.issues) > MaxImages
    /\ Len(Results.technical.issues) = 4

\* C7: the score is max(0, min(100, 100 - D)), D adding, for every issue of
\* metadata.title, metadata.description, headings, images, technical and
\* accessibility, 5 if it contains 'Missing', otherwise 3 if it contains
\* 'Multiple', otherwise 2.
C7_ScoreFormula ==
    Reported =>
        LET lists == <<Results.metadata.title.issues, Results.metadata.description.issues,
                       Results.headings.issues, Results.images.issues,
                       Results.technical.issues, Results.accessibility.issues>>
            HasMissing(s) == includes(s, <<"M","i","s","s","i","n","g">>)
            HasMultiple(s) == includes(s, <<"M","u","l","t","i","p","l","e">>)
            Sum(F(_)) == F(lists[1]) + F(lists[2]) + F(lists[3]) + F(lists[4]) + F(lists[5])
                         + F(lists[6])
            D == 5 * Sum(LAMBDA l : Count(l, HasMissing))
                 + 3 * Sum(LAMBDA l : Count(l, LAMBDA s : ~HasMissing(s) /\ HasMultiple(s)))
                 + 2 * Sum(LAMBDA l : Count(l, LAMBDA s : ~HasMissing(s) /\ ~HasMultiple(s)))
        IN  Score = (IF 100 - D < 0 THEN 0 ELSE IF 100 - D > 100 THEN 100 ELSE 100 - D)

\* A report with an issue that contains both words, scored 5 for it and not 8.
C7_Witness ==
    /\ Reported
    /\ Len(doc.images) = 1
    /\ doc.titles = <<Txt(45)>>
    /\ Results.images.issues[1] = imageIssue.missingDimensions \o pageText.srcBoth
    /\ Score = 100 - 5 - 2 - 5

\* Issue lists the other sections can hold.
OtherIssues == {<<>>, <<mobileIssue.viewport, linkIssue.noNofollow>>}

\* C8: the score does not depend on the issues of links, performance, security,
\* structuredData, mobile and contentQuality: whatever these six lists are
\* replaced by, the score of the section results stays the one of the report.
C8_OtherSectionsIgnored ==
    Reported =>
        \A l, p, s, sd, m, c \in OtherIssues :
            calculateOverallScore(
                [Results EXCEPT !.links.issues = l, !.performance.issues = p,
                                !.security.issues = s, !.structuredData.issues = sd,
                                !.mobile.issues = m, !.contentQuality.issues = c]) = Score

\* A report whose mobile, security and contentQuality sections hold issues, one
\* of them containing 'Missing'.
C8_Witness ==
    /\ Reported
    /\ Contains(Results.mobile.issues, mobileIssue.viewport)
    /\ Results.security.issues = <<securityIssue.notHttps>>
    /\ Len(Results.contentQuality.issues) = 2
    /\ Score > 0

\* C9 (as stated): metadata.title.issues never holds two entries of the pair
\* 'Missing title tag' / 'Multiple title tags found...'.
C9_OneTitlePresenceIssue ==
    Reported =>
        Count(Results.metadata.title.issues,
              LAMBDA s : s \in {titleIssue.missing, titleIssue.multiple}) <= 1

LengthIssues(issues, short, long) == Count(issues, LAMBDA s : s \in {short, long})

\* C10 (as stated): for a title that exists, of length L, 'Title too short' is
\* issued iff L < 30 and 'Title too long' iff L > 60; the same for a description
\* that exists, with 120 and 160; none for an absent title or description.
C10_LengthIssuesWhenExisting ==
    Reported =>
        LET ti == Results.metadata.title.issues
            di == Results.metadata.description.issues
        IN  /\ Len(doc.titles) >= 1 =>
                  /\ Contains(ti, titleIssue.tooShort) <=> Len(doc.titles[1]) < 30
                  /\ Contains(ti, titleIssue.tooLong) <=> Len(doc.titles[1]) > 60
            /\ IsSome(doc.description) =>
                  /\ Contains(di, descriptionIssue.tooShort) <=> Len(Value(doc.description)) < 120
                  /\ Contains(di, descriptionIssue.tooLong) <=> Len(Value(doc.description)) > 160
            /\ Len(doc.titles) = 0 => LengthIssues(ti, titleIssue.tooShort, titleIssue.tooLong) = 0
            /\ doc.description = None =>
                  LengthIssues(di, descriptionIssue.tooShort, descriptionIssue.tooLong) = 0

\* C10 (amended): for a title whose text is not empty, of length L >= 1, 'Title
\* too short' is issued iff L < 30 and 'Title too long' iff L > 60, never both
\* and none for 30 <= L <= 60; the same for a description whose content is not
\* empty, with 120 and 160; a title or description that is absent or empty gets
\* no length issue.
C10_LengthIssues ==
    Reported =>
        LET ti == Results.metadata.title.issues
            di == Results.metadata.description.issues
            L == IF Len(doc.titles) = 0 THEN 0 ELSE Len(doc.titles[1])
            M == IF doc.description = None THEN 0 ELSE Len(Value(doc.description))
        IN  /\ L >= 1 =>
                  /\ Contains(ti, titleIssue.tooShort) <=> L < 30
                  /\ Contains(ti, titleIssue.tooLong) <=> L > 60
            /\ M >= 1 =>
                  /\ Contains(di, descriptionIssue.tooShort) <=> M < 120
                  /\ Contains(di, descriptionIssue.tooLong) <=> M > 160
            /\ LengthIssues(ti, titleIssue.tooShort, titleIssue.tooLong)
                  = (IF L >= 1 /\ (L < 30 \/ L > 60) THEN 1 ELSE 0)
            /\ LengthIssues(di, descriptionIssue.tooShort, descriptionIssue.tooLong)
                  = (IF M >= 1 /\ (M < 120 \/ M > 160) THEN 1 ELSE 0)

\* A title of 29 characters is too short and nothing else; a description of 161
\* is too long and nothing else.
C10_Witness ==
    /\ Reported
    /\ doc.titles = <<Txt(29)>>
    /\ doc.description = Some(Txt(161))
    /\ Results.metadata.title.issues = <<titleIssue.tooShort>>
    /\ Results.metadata.description.issues = <<descriptionIssue.tooLong>>


-----------------------------------------------------------------------------
(* Properties of the heading, link and image analyzers and of the          *)
(* recommendations.                                                        *)

\* The k-th smallest element of a set of numbers.
Nth(set, k) == CHOOSE i \in set : Cardinality({j \in set : j < i}) = k - 1

\* C11: analyzeHeadings walks the headings in document order, the previous
\* level starting at 1, and issues exactly one 'Skipped heading level: from
\* H{prev} to H{curr}' for each transition with curr - prev > 1, in order and
\* not deduplicated, and none for any other transition; a document with exactly
\* one H1 and no such transition has no heading issue.
C11_SkippedLevels ==
    Reported =>
        LET levels == [i \in 1..Len(doc.headings) |-> doc.headings[i].level]
            prev(i) == IF i = 1 THEN 1 ELSE levels[i - 1]
            skips == {i \in 1..Len(levels) : levels[i] - prev(i) > 1}
            text(i) ==
                <<"S","k","i","p","p","e","d"," ","h","e","a","d","i","n","g"," ","l","e","v",
                  "e","l",":"," ","f","r","o","m"," ","H">>
                \o ToStr(prev(i)) \o <<" ","t","o"," ","H">> \o ToStr(levels[i])
            skipped == SelectSeq(Results.headings.issues,
                                 LAMBDA s : startsWith(s, <<"S","k","i","p","p","e","d">>))
        IN  /\ Len(skipped) = Cardinality(skips)
            /\ \A k \in 1..Len(skipped) : skipped[k] = text(Nth(skips, k))
            /\ (Cardinality({i \in 1..Len(levels) : levels[i] = 1}) = 1 /\ skips = {})
                  => Results.headings.issues = <<>>

\* A lone H1 followed by an H3: exactly one issue, 'from H1 to H3'.
C11_Witness ==
    /\ Reported
    /\ Len(doc.headings) = 2
    /\ doc.headings[1].level = 1
    /\ doc.headings[2].level = 3
    /\ Results.headings.issues =
           << <<"S","k","i","p","p","e","d"," ","h","e","a","d","i","n","g"," ","l","e","v","e",
                "l",":"," ","f","r","o","m"," ","H","1"," ","t","o"," ","H","3">> >>

Links == Results.links

\* C12 (as stated): total = internal.length + external.length, and the links
\* recorded as broken or as social are not counted in total.
C12_BrokenAndSocialExcluded ==
    Reported =>
        /\ Links.total = Len(Links.internal) + Len(Links.external)
        /\ Links.total = Len(doc.anchors) - Len(Links.broken) - Len(Links.social)

\* C12 (amended): total = internal.length + external.length; every anchor is
\* either counted in total or recorded as broken, never both; every link recorded
\* as social is also recorded as external, so it is counted in total, once.
C12_TotalCountsLinks ==
    Reported =>
        /\ Links.total = Len(Links.internal) + Len(Links.external)
        /\ Links.total = Len(doc.anchors) - Len(Links.broken)
        /\ \A i \in 1..Len(Links.social) : Contains(Links.external, Links.social[i])
        /\ Len(Links.social) <= Len(Links.external)

\* A page with one link to a social site and one anchor without href: the
\* social link is the one link counted.
C12_Witness ==
    /\ Reported
    /\ doc.anchors = <<Anchor(Some(linkText.social), None), Anchor(None, None)>>
    /\ Links.total = 1
    /\ Len(Links.social) = 1
    /\ Len(Links.broken) = 1

HasNofollow(rel) == includes(rel, <<"n","o","f","o","l","l","o","w">>)
NoNofollowIssue(links) == Contains(links.issues, linkIssue.noNofollow)

\* The anchors of the page that are external links: their href resolves, to a
\* host other than the one of the page.
IsExternal(a) ==
    LET base == parseURL(doc.url, None)
    IN  /\ IsSome(a.href)
        /\ IsSome(parseURL(Value(a.href), base))
        /\ Value(parseURL(Value(a.href), base)).hostname # Value(base).hostname

\* The links result of the page once every external link has rel="nofollow".
LinksWithNofollow ==
    analyzeLinks(
        [doc EXCEPT !.anchors =
             [i \in 1..Len(doc.anchors) |->
                 IF IsExternal(doc.anchors[i])
                 THEN [doc.anchors[i] EXCEPT !.rel = Some(<<"n","o","f","o","l","l","o","w">>)]
                 ELSE doc.anchors[i]]],
        doc.url)

\* C13 (as stated): links.issues holds 'External links without nofollow
\* attributes' exactly when there is at least one external link and no anchor of
\* the document carries rel nofollow; with rel="nofollow" on every external link
\* the issue is gone.
C13_NoAnchorWithNofollow ==
    Reported =>
        /\ NoNofollowIssue(Links) <=>
              /\ Len(Links.external) >= 1
              /\ \A i \in 1..Len(doc.anchors) :
                    doc.anchors[i].rel = None \/ ~HasNofollow(Value(doc.anchors[i].rel))
        /\ ~NoNofollowIssue(LinksWithNofollow)

\* C13 (amended): the issue is present exactly when there is at least one
\* external link and no link recorded as internal or external has a rel that
\* contains 'nofollow' (an anchor without href, or with an href that does not
\* parse, is not looked at); with rel="nofollow" on every external link the
\* issue is gone.
C13_NoLinkWithNofollow ==
    Reported =>
        /\ NoNofollowIssue(Links) <=>
              /\ Len(Links.external) >= 1
              /\ \A i \in 1..Len(Links.internal) : ~HasNofollow(Links.internal[i].rel)
              /\ \A i \in 1..Len(Links.external) : ~HasNofollow(Links.external[i].rel)
        /\ ~NoNofollowIssue(LinksWithNofollow)

\* An external link without rel next to an anchor that has rel="nofollow" but
\* no href: the issue is reported, and goes once the link gets rel="nofollow".
C13_Witness ==
    /\ Reported
    /\ doc.anchors = <<Anchor(Some(linkText.external), None),
                       Anchor(None, Some(linkIssue.nofollow))>>
    /\ NoNofollowIssue(Links)
    /\ LinksWithNofollow.attributes.nofollow = 1

Images == Results.images
IsAltSummary(s) ==
    /\ Len(s) > 24
    /\ SubSeq(s, Len(s) - 23, Len(s)) =
           <<" ","i","m","a","g","e","s"," ","m","i","s","s","i","n","g"," ","a","l","t"," ","t",
             "e","x","t">>
    /\ \A i \in 1..(Len(s) - 24) : s[i] \in CharsOf(Digit)

\* C14: total = withAlt + withoutAlt.length = the number of img elements; an
\* image with no alt attribute is in withoutAlt, and withAlt counts none of
\* them; '{N} images missing alt text' is in the issues exactly once, with
\* N = withoutAlt.length, when N > 0, and no such issue is there when N = 0.
C14_ImageCounts ==
    Reported =>
        LET N == Len(Images.withoutAlt)
            lacking == {i \in 1..Len(doc.images) : doc.images[i].alt = None}
            summaries == SelectSeq(Images.issues, IsAltSummary)
        IN  /\ Images.total = Len(doc.images)
            /\ Images.total = Images.withAlt + N
            /\ \A i \in lacking :
                  Contains(Images.withoutAlt,
                           [src |-> doc.images[i].src, context |-> doc.images[i].context])
            /\ Images.withAlt <= Len(doc.images) - Cardinality(lacking)
            /\ summaries = (IF N > 0
                            THEN << ToStr(N) \o <<" ","i","m","a","g","e","s"," ","m","i","s","s",
                                                  "i","n","g"," ","a","l","t"," ","t","e","x","t">> >>
                            ELSE <<>>)

\* Two images, one with an alt text and one without the attribute: the issue
\* '1 images missing alt text'.
C14_Witness ==
    /\ Reported
    /\ Len(doc.images) = 2
    /\ doc.images[1].alt = Some(pageText.alt)
    /\ doc.images[2].alt = None
    /\ Images.withAlt = 1
    /\ Len(Images.withoutAlt) = 1
    /\ Contains(Images.issues,
                <<"1"," ","i","m","a","g","e","s"," ","m","i","s","s","i","n","g"," ","a","l","t",
                  " ","t","e","x","t">>)

Recommendations == Results.recommendations
ByCategory(category) == SelectSeq(Recommendations, LAMBDA r : r.category = category)
IssuesOf(recs) == [i \in 1..Len(recs) |-> recs[i].issue]
\* The analyzers whose issues generateRecommendations walks one by one.
WalkedCategories ==
    {<<"Content Structure", Results.headings.issues>>,
     <<"Images", Results.images.issues>>,
     <<"Technical SEO", Results.technical.issues>>}

\* C15 (as stated): headings, images and technical each yield exactly one
\* recommendation when their issue list is non-empty, its issue being all the
\* issues of the analyzer joined by ', ', and none when the list is empty.
C15_OneEntryPerCategory ==
    Reported =>
        \A c \in WalkedCategories :
            IssuesOf(ByCategory(c[1])) =
                (IF c[2] = <<>> THEN <<>> ELSE <<join(c[2], <<",", " ">>)>>)

\* C15 (amended): headings, images and technical each yield one recommendation
\* per issue, in the order of the issue list, the issue of each entry being that
\* one issue string, and none when the list is empty; the title and the
\* description each yield one 'Metadata' entry when their list is non-empty, its
\* issue being the list joined by ', '.
C15_OneEntryPerIssue ==
    Reported =>
        /\ \A c \in WalkedCategories : IssuesOf(ByCategory(c[1])) = c[2]
        /\ IssuesOf(ByCategory("Metadata")) =
               (IF Results.metadata.title.issues = <<>> THEN <<>>
                ELSE <<join(Results.metadata.title.issues, <<",", " ">>)>>)
               \o (IF Results.metadata.description.issues = <<>> THEN <<>>
                   ELSE <<join(Results.metadata.description.issues, <<",", " ">>)>>)

\* A page whose headings are an H3 and an H5: three heading issues, three
\* 'Content Structure' entries.
C15_Witness ==
    /\ Reported
    /\ Len(Results.headings.issues) = 3
    /\ Len(ByCategory("Content Structure")) = 3
    /\ ByCategory("Content Structure")[1].issue = headingIssue.missingH1

\* C16: the priority of every recommendation follows from its category alone:
\* Metadata is High, Content Structure Medium, Images Medium, Technical SEO
\* High; there is no other category and no other priority.
C16_PriorityByCategory ==
    Reported =>
        \A i \in 1..Len(Recommendations) :
            <<Recommendations[i].category, Recommendations[i].priority>> \in
                {<<"Metadata", "High">>, <<"Content Structure", "Medium">>,
                 <<"Images", "Medium">>, <<"Technical SEO", "High">>}

\* A report with entries of all four categories, among them 'Missing H1
\* heading' at Medium and an image issue holding 'Missing' at Medium.
C16_Witness ==
    /\ Reported
    /\ \A c \in {"Metadata", "Content Structure", "Images", "Technical SEO"} :
          Len(ByCategory(c)) > 0
    /\ ByCategory("Content Structure")[1] =
           [category |-> "Content Structure", priority |-> "Medium",
            issue |-> headingIssue.missingH1,
            solution |-> "Implement proper heading hierarchy (H1-H6)"]
    /\ \E i \in 1..Len(ByCategory("Images")) :
          includes(ByCategory("Images")[i].issue, <<"M","i","s","s","i","n","g">>)

\* Two outcomes of analyze that differ at most in the timestamp of the report.
SameButTimestamp(a, b) ==
    /\ a.ok = b.ok
    /\ IF a.ok
       THEN [a.results EXCEPT !.timestamp = 0] = [b.results EXCEPT !.timestamp = 0]
       ELSE a.message = b.message

-----------------------------------------------------------------------------
(* Properties of the technical, content and link sections.                 *)

\* C22 (as stated): each of the four issues of analyzeTechnicalSEO is in
\* technical.issues exactly when its item (viewport meta, charset declaration,
\* html lang, DOCTYPE declaration) is absent from the document, whatever the
\* other three; a document that has all four has no technical issue.
C22_IssuePerMissingItem ==
    Reported =>
        LET issues == Results.technical.issues
        IN  /\ Contains(issues, technicalIssue.viewport) <=> ~Truthy(doc.viewport)
            /\ Contains(issues, technicalIssue.charset) <=> ~Truthy(doc.charset)
            /\ Contains(issues, technicalIssue.language) <=> ~Truthy(doc.lang)
            /\ Contains(issues, technicalIssue.doctype) <=> ~doc.doctype
            /\ (Truthy(doc.viewport) /\ Truthy(doc.charset) /\ Truthy(doc.lang) /\ doc.doctype)
                   => issues = <<>>

\* The words of a text: its maximal runs of characters that are not whitespace,
\* counted by their first characters.
WordStarts(text) ==
    {i \in 1..Len(text) : text[i] \notin Whitespace /\ (i = 1 \/ text[i - 1] \in Whitespace)}

\* C24 (as stated): contentQuality.wordCount is the number of
\* whitespace-separated words of the body text; it is 0 for a body whose text is
\* empty or whitespace only.
C24_WordCount ==
    Reported => Results.contentQuality.wordCount = Cardinality(WordStarts(doc.bodyText))

\* The hostname of the address a links entry records.
HostOf(entry) == Value(parseURL(entry.url, None)).hostname

\* C27: every anchor of the document is in exactly one of internal, external
\* and broken (the three lengths add up to the number of anchors, and no
\* address recorded as internal is recorded as external); every entry of social
\* is an entry of external too, and its hostname is not the one of the page.
C27_AnchorsPartitioned ==
    Reported =>
        /\ Len(Links.internal) + Len(Links.external) + Len(Links.broken) = Len(doc.anchors)
        /\ \A i \in 1..Len(Links.internal) : ~Contains(Links.external, Links.internal[i])
        /\ \A i \in 1..Len(Links.social) :
              /\ Contains(Links.external, Links.social[i])
              /\ HostOf(Links.social[i]) # Value(parseURL(doc.url, None)).hostname
        /\ Len(Links.social) <= Len(Links.external)

\* A page on twitter.com with a link to twitter.com and a link to another
\* host: one internal, one external, none social.
C27_Witness ==
    /\ Reported
    /\ doc.url = linkText.social
    /\ Len(doc.anchors) = 2
    /\ Len(Links.internal) = 1
    /\ HostOf(Links.internal[1]) = HostOf([url |-> linkText.social])
    /\ Len(Links.external) = 1
    /\ Links.social = <<>>

\* The document with the value of every src attribute it has replaced by `src`:
\* the same elements and attributes, other values of img src.
WithSrc(d, src) ==
    [d EXCEPT !.images =
         [i \in 1..Len(d.images) |->
             IF IsSome(d.images[i].src) THEN [d.images[i] EXCEPT !.src = Some(src)]
             ELSE d.images[i]]]

\* C28 (as stated): the score does not depend on the values of the img src
\* attributes: the document gets the score of every document that differs from
\* it in those values only.
C28_ScoreIgnoresSrc ==
    Reported =>
        \A src \in {pageText.src, pageText.srcMissing, pageText.srcBoth} :
            analyze(WithSrc(doc, src), Results.timestamp).results.score = Score

\* C29: the options argument has no effect on the report: any two calls of a
\* run on the same document and url give outcomes equal in every field but
\* timestamp, whatever their options; a report has all its sections, and its
\* images, links and performance sections cover the whole document also when
\* includeImages, includeLinks and includePerformance are false.
C29_OptionsIgnored ==
    /\ \A i, j \in 1..Len(calls) :
          calls[i].doc = calls[j].doc => SameButTimestamp(calls[i].report, calls[j].report)
    /\ \A i \in 1..Len(calls) :
          calls[i].report.ok =>
              LET results == calls[i].report.results
                  d == calls[i].doc
              IN  /\ {"images", "links", "performance", "recommendations", "score"}
                         \subseteq DOMAIN results
                  /\ results.images.total = Len(d.images)
                  /\ Len(results.links.internal) + Len(results.links.external)
                         + Len(results.links.broken) = Len(d.anchors)
                  /\ results.performance.totalStyles = d.stylesheets
                  /\ results.performance.totalScripts = Len(d.scripts)

\* The page with an image analyzed without options and with the three include
\* options false: both reports count the image and give the same score.
C29_Witness ==
    /\ Len(calls) = 2
    /\ calls[1].doc = calls[2].doc
    /\ Len(calls[1].doc.images) = 1
    /\ calls[1].options.includeImages = None
    /\ calls[2].options =
           [includeImages |-> Some(FALSE), includeLinks |-> Some(FALSE),
            includePerformance |-> Some(FALSE)]
    /\ calls[2].report.ok
    /\ calls[2].report.results.images.total = 1
    /\ calls[1].report.results.score = calls[2].report.results.score

-----------------------------------------------------------------------------
(* The validators of the POST /api/seo/analyze route.                      *)

\* The strings validateURL compares the address and its host with.
hostText ==
    [http |->
      \* "http://"
      <<"h","t","t","p",":","/","/">>,
     https |->
      \* "https://"
      <<"h","t","t","p","s",":","/","/">>,
     localhost |->
      \* "localhost"
      <<"l","o","c","a","l","h","o","s","t">>,
     loopback |->
      \* "127.0.0.1"
      <<"1","2","7",".","0",".","0",".","1">>,
     loopback6 |->
      \* "::1"
      <<":",":","1">>,
     ten |->
      \* "10."
      <<"1","0",".">>,
     oneNineTwo |->
      \* "192.168."
      <<"1","9","2",".","1","6","8",".">>,
     oneSevenTwo |->
      \* "172."
      <<"1","7","2",".">>,
     linkLocal |->
      \* "169.254."
      <<"1","6","9",".","2","5","4",".">>]

\* The first position at which `sub` occurs in `s`, or 0.
indexOf(s, sub) ==
    IF includes(s, sub)
    THEN CHOOSE i \in 1..Len(s) :
             /\ SubSeq(s, i, i + Len(sub) - 1) = sub
             /\ \A j \in 1..(i - 1) : SubSeq(s, j, j + Len(sub) - 1) # sub
    ELSE 0

isDigits(s) == s # <<>> /\ \A i \in 1..Len(s) : s[i] \in CharsOf(Digit)

\* The number a string of digits denotes.
RECURSIVE toNumber(_)
toNumber(digits) ==
    IF digits = <<>> THEN 0
    ELSE 10 * toNumber(SubSeq(digits, 1, Len(digits) - 1))
         + (codeOf[digits[Len(digits)]] - codeOf["0"])

\* validator.isIP(host, 4): four decimal numbers of 0..255 without leading zero.
isIPv4(host) ==
    LET parts == split(host, ".")
    IN  /\ Len(parts) = 4
        /\ \A i \in 1..4 :
              /\ isDigits(parts[i])
              /\ Len(parts[i]) <= 3
              /\ (Len(parts[i]) > 1 => parts[i][1] # "0")
              /\ toNumber(parts[i]) <= 255

\* validator.isFQDN(host) with its defaults: at least two labels, a top-level
\* label of two letters or more, every label of 1..63 letters, digits and
\* hyphens that neither starts nor ends with a hyphen.
isFQDN(host) ==
    LET parts == split(host, ".")
        tld == parts[Len(parts)]
    IN  /\ Len(parts) >= 2
        /\ Len(tld) >= 2
        /\ \A i \in 1..Len(tld) : tld[i] \in Letters
        /\ \A k \in 1..Len(parts) :
              /\ Len(parts[k]) \in 1..63
              /\ \A i \in 1..Len(parts[k]) :
                    parts[k][i] \in Letters \cup CharsOf(Digit) \cup {"-"}
              /\ parts[k][1] # "-"
              /\ parts[k][Len(parts[k])] # "-"

\* validator.isURL(url, {protocols: ['http', 'https'], require_protocol: true,
\* require_host: true, require_valid_protocol: true, disallow_auth: true, ...})
\* on addresses whose host is not a bracketed IPv6 literal.
isURL(url) ==
    LET at == indexOf(url, <<":", "/", "/">>)
        protocol == toLowerCase(SubSeq(url, 1, at - 1))
        rest == SubSeq(url, at + 3, Len(url))
        authority == SubSeq(rest, 1, firstIndex(rest, {"#", "?", "/"}) - 1)
        hostPort == split(authority, ":")
        host == hostPort[1]
        port == join(Tail(hostPort), <<":">>)
    IN  /\ url # <<>>
        /\ \A i \in 1..Len(url) : url[i] \notin Whitespace \cup {"<", ">"}
        /\ at > 0
        /\ protocol \in SpecialSchemes
        /\ authority # <<>>
        /\ "@" \notin CharsOf(authority)
        /\ port # <<>> => (isDigits(port) /\ toNumber(port) \in 1..65535)
        /\ isIPv4(host) \/ isFQDN(host)

neverPrivateHost(hostname) == FALSE

\* hostname.match(/^10\./) || /^192\.168\./ || /^172\.(1[6-9]|2[0-9]|3[0-1])\./
\* || /^169\.254\./
isPrivateHost(hostname) ==
    \/ startsWith(hostname, hostText.ten)
    \/ startsWith(hostname, hostText.oneNineTwo)
    \/ /\ startsWith(hostname, hostText.oneSevenTwo)
       /\ Len(hostname) >= 7
       /\ isDigits(SubSeq(hostname, 5, 6))
       /\ toNumber(SubSeq(hostname, 5, 6)) \in 16..31
       /\ hostname[7] = "."
    \/ startsWith(hostname, hostText.linkLocal)

\* validateURL(url) for a url that is a string ('' is falsy).
validateURL(url) ==
    LET invalid(message) == [isValid |-> FALSE, sanitizedUrl |-> <<>>, errors |-> <<message>>]
        trimmedUrl == trim(url)
        processedUrl ==
            IF startsWith(trimmedUrl, hostText.http) \/ startsWith(trimmedUrl, hostText.https)
            THEN trimmedUrl
            ELSE hostText.https \o trimmedUrl
        urlObj == parseURL(processedUrl, None)
        hostname == toLowerCase(Value(urlObj).hostname)
    IN  IF url = <<>> THEN invalid("URL is required and must be a string")
        ELSE IF trimmedUrl = <<>> THEN invalid("URL cannot be empty")
        ELSE IF ~isURL(processedUrl) THEN invalid("Invalid URL format")
        ELSE IF ~IsSome(urlObj) THEN invalid("Invalid URL structure")
        ELSE IF hostname \in {hostText.localhost, hostText.loopback, hostText.loopback6}
        THEN invalid("Localhost URLs are not allowed")
        ELSE IF isPrivateHost(hostname) THEN invalid("Private IP addresses are not allowed")
        ELSE IF Value(urlObj).scheme \notin SpecialSchemes
        THEN invalid("Only HTTP and HTTPS protocols are allowed")
        ELSE [isValid |-> TRUE, sanitizedUrl |-> processedUrl, errors |-> <<>>]

-----------------------------------------------------------------------------
(* POST /api/seo/analyze.                                                  *)

\* The strings of the handler of POST /analyze, and two messages of a throttling
\* provider that it classifies.
routeText ==
    [invalidUrl |->
      \* "Invalid URL"
      <<"I","n","v","a","l","i","d"," ","U","R","L">>,
     timeout |->
      \* "timeout"
      <<"t","i","m","e","o","u","t">>,
     rateLimit |->
      \* "rate limit"
      <<"r","a","t","e"," ","l","i","m","i","t">>,
     invalidUrlProvided |->
      \* "Invalid URL provided"
      <<"I","n","v","a","l","i","d"," ","U","R","L"," ","p","r","o","v","i","d","e","d">>,
     timedOut |->
      \* "Analysis timed out"
      <<"A","n","a","l","y","s","i","s"," ","t","i","m","e","d"," ","o","u","t">>,
     rateLimitExceeded |->
      \* "Rate limit exceeded"
      <<"R","a","t","e"," ","l","i","m","i","t"," ","e","x","c","e","e","d","e","d">>,
     internal |->
      \* "Internal server error"
      <<"I","n","t","e","r","n","a","l"," ","s","e","r","v","e","r"," ","e","r","r","o","r">>,
     validationFailed |->
      \* "Validation failed"
      <<"V","a","l","i","d","a","t","i","o","n"," ","f","a","i","l","e","d">>,
     invalidParameters |->
      \* "Invalid analysis parameters"
      <<"I","n","v","a","l","i","d"," ","a","n","a","l","y","s","i","s"," ","p","a","r","a",
        "m","e","t","e","r","s">>,
     rateLimited |->
      \* "rate limit reached"
      <<"r","a","t","e"," ","l","i","m","i","t"," ","r","e","a","c","h","e","d">>,
     throttled |->
      \* "rate limit wait timeout"
      <<"r","a","t","e"," ","l","i","m","i","t"," ","w","a","i","t"," ","t","i","m","e","o",
        "u","t">>]

\* The addresses and option values clients send.
requestText ==
    [https |->
      \* "https://example.com/"
      <<"h","t","t","p","s",":","/","/","e","x","a","m","p","l","e",".","c","o","m","/">>,
     noProtocol |->
      \* "example.com"
      <<"e","x","a","m","p","l","e",".","c","o","m">>,
     padded |->
      \* " http://example.com/a "
      <<" ","h","t","t","p",":","/","/","e","x","a","m","p","l","e",".","c","o","m","/","a"," ">>,
     publicIp |->
      \* "http://172.32.0.1/"
      <<"h","t","t","p",":","/","/","1","7","2",".","3","2",".","0",".","1","/">>,
     ftp |->
      \* "ftp://example.com/"
      <<"f","t","p",":","/","/","e","x","a","m","p","l","e",".","c","o","m","/">>,
     localhost |->
      \* "http://localhost/"
      <<"h","t","t","p",":","/","/","l","o","c","a","l","h","o","s","t","/">>,
     loopback |->
      \* "http://127.0.0.1/"
      <<"h","t","t","p",":","/","/","1","2","7",".","0",".","0",".","1","/">>,
     ten |->
      \* "http://10.0.0.1/"
      <<"h","t","t","p",":","/","/","1","0",".","0",".","0",".","1","/">>,
     oneNineTwo |->
      \* "http://192.168.1.1/"
      <<"h","t","t","p",":","/","/","1","9","2",".","1","6","8",".","1",".","1","/">>,
     oneSevenTwo |->
      \* "http://172.16.0.1/"
      <<"h","t","t","p",":","/","/","1","7","2",".","1","6",".","0",".","1","/">>,
     linkLocal |->
      \* "http://169.254.1.1/"
      <<"h","t","t","p",":","/","/","1","6","9",".","2","5","4",".","1",".","1","/">>,
     spaced |->
      \* "http://exa mple.com/"
      <<"h","t","t","p",":","/","/","e","x","a"," ","m","p","l","e",".","c","o","m","/">>,
     auth |->
      \* "https://user@example.com/"
      <<"h","t","t","p","s",":","/","/","u","s","e","r","@","e","x","a","m","p","l","e",".","c",
        "o","m","/">>,
     blank |->
      \* "  "
      <<" "," ">>,
     yes |->
      \* "yes"
      <<"y","e","s">>,
     fiveSeconds |->
      \* "5000ms"
      <<"5","0","0","0","m","s">>]

\* The values of a JSON body, with their typeof.
Bool(b) == [type |-> "boolean", value |-> b]
Str(s) == [type |-> "string", value |-> s]
Num(n) == [type |-> "number", value |-> n]

\* The longest run of digits a string starts with.
RECURSIVE leadingDigits(_)
leadingDigits(s) ==
    IF s # <<>> /\ Head(s) \in CharsOf(Digit) THEN <<Head(s)>> \o leadingDigits(Tail(s)) ELSE <<>>

\* parseInt(v) for an integer, an unsigned string or a boolean; None is NaN.
parseInt(v) ==
    IF v.type = "number" THEN Some(v.value)
    ELSE IF v.type = "string" /\ leadingDigits(trimStart(v.value)) # <<>>
    THEN Some(toNumber(leadingDigits(trimStart(v.value))))
    ELSE None

validateAnalysisParams(params) ==
    LET notBoolean(field) == IsSome(field) /\ Value(field).type # "boolean"
        timeout == parseInt(Value(params.timeout))
        errors ==
            pushIf(notBoolean(params.includeImages), "includeImages must be a boolean")
            \o pushIf(notBoolean(params.includeLinks), "includeLinks must be a boolean")
            \o pushIf(notBoolean(params.includePerformance),
                      "includePerformance must be a boolean")
            \o pushIf(/\ IsSome(params.timeout)
                      /\ \/ timeout = None
                         \/ Value(timeout) < 1000
                         \/ Value(timeout) > 30000,
                      "timeout must be between 1000 and 30000 milliseconds")
    IN  [isValid |-> errors = <<>>, errors |-> errors]

\* The bodies of the requests: url absent or a string, options absent or an
\* object.
RequestUrls ==
    {None} \cup {Some(requestText[f]) : f \in DOMAIN requestText \ {"yes", "fiveSeconds"}}

NoOptions ==
    [includeImages |-> None, includeLinks |-> None, includePerformance |-> None,
     timeout |-> None]

RequestOptions ==
    {NoOptions,
     [NoOptions EXCEPT !.includeImages = Some(Bool(FALSE)), !.timeout = Some(Num(5000))],
     [NoOptions EXCEPT !.timeout = Some(Str(requestText.fiveSeconds))],
     [NoOptions EXCEPT !.timeout = Some(Num(500))],
     [NoOptions EXCEPT !.timeout = Some(Num(30001))],
     [NoOptions EXCEPT !.timeout = Some(Str(requestText.yes))],
     [NoOptions EXCEPT !.includeLinks = Some(Str(requestText.yes))]}

RequestBodies == [url : RequestUrls, options : RequestOptions]

\* The errors of the provider while a request is served.
RouteErrors ==
    {[response |-> None, message |-> axiosMessage.timeout],
     [response |-> None, message |-> axiosMessage.refused],
     [response |-> Some([status |-> 429]), message |-> StatusMessage(429)],
     [response |-> Some([status |-> 429]), message |-> routeText.rateLimited],
     [response |-> None, message |-> routeText.throttled],
     [response |-> Some([status |-> 500]), message |-> StatusMessage(500)],
     [response |-> Some([status |-> 400]), message |-> StatusMessage(400)]}

\* The error of an attempt that exceeds the timeout of the HTTP client.
TimeoutError == [response |-> None, message |-> axiosMessage.timeout]

\* The pages the provider returns, as cheerio parses them.
RoutePages == {CleanDoc, BareDoc}

statusCodeRateLimitFirst(message) ==
    IF includes(message, routeText.invalidUrl) THEN 400
    ELSE IF includes(message, routeText.rateLimit) THEN 429
    ELSE IF includes(message, routeText.timeout) THEN 504
    ELSE 500

statusCodeWithoutTimeout(message) ==
    IF includes(message, routeText.invalidUrl) THEN 400
    ELSE IF includes(message, routeText.rateLimit) THEN 429
    ELSE 500

\* The status the catch block picks for an error message.
statusCode(message) ==
    IF includes(message, routeText.invalidUrl) THEN 400
    ELSE IF includes(message, routeText.timeout) THEN 504
    ELSE IF includes(message, routeText.rateLimit) THEN 429
    ELSE 500

\* The errorMessage the catch block picks for an error message.
errorMessage(message) ==
    IF includes(message, routeText.invalidUrl) THEN routeText.invalidUrlProvided
    ELSE IF includes(message, routeText.timeout) THEN routeText.timedOut
    ELSE IF includes(message, routeText.rateLimit) THEN routeText.rateLimitExceeded
    ELSE routeText.internal

\* res.status(...).json(...): a body without results.
failure(status, errorText, message) ==
    [status |-> status, success |-> FALSE, error |-> Some(errorText), message |-> message,
     results |-> None]

\* The response of the catch block.
errorResponse(message) ==
    failure(statusCode(message), errorMessage(message),
            Some(IF development THEN message ELSE errorMessage(message)))

\* The chain of body('url') records an error: after trim(), the value is empty
\* (notEmpty) or validateURL rejects it (custom).  No address of the model is
\* longer than the 2048 characters of isLength.
urlValidationFails(value) == value = <<>> \/ ~validateURL(value).isValid

\* The options object the handler hands to scrapeUrl holds timeout,
\* waitForSelector and renderJs: none of the options scrapeUrl reads.
routeScrapeOptions == [maxRetries |-> None, retryDelay |-> None, retryDelayMs |-> None]

\* A request arrives: urlValidationRules and checkValidationResult run, then the
\* handler up to the await of scrapeUrl.  The trim() of the chain rewrites
\* req.body.url; the handler reads `url` from there.
Post(body) ==
    /\ rpc = "idle"
    /\ LET url == trim(IF IsSome(body.url) THEN Value(body.url) ELSE <<>>)
       IN  /\ req' = Some([url |-> url, options |-> body.options])
           /\ IF urlValidationFails(url)
              THEN /\ res' = Some(failure(400, routeText.validationFailed, None))
                   /\ rpc' = "responded"
                   /\ UNCHANGED <<invoked, scrapeVars>>
              ELSE IF ~validateAnalysisParams(body.options).isValid
              THEN /\ res' = Some(failure(400, routeText.invalidParameters, None))
                   /\ rpc' = "responded"
                   /\ UNCHANGED <<invoked, scrapeVars>>
              ELSE /\ res' = None
                   /\ rpc' = "scraping"
                   /\ invoked' = <<[service |-> "scrapeUrl", url |-> url]>>
                   /\ scrapeUrl(routeScrapeOptions)
    /\ UNCHANGED <<development, caught, retryVars, analyzeVars, limitVars>>

\* scrapeUrl has resolved: analyze runs on the page and the handler answers, with
\* the report or from its catch block.
ScrapeReturns(page, now) ==
    /\ rpc = "scraping"
    /\ pc = "returned"
    /\ analyzeCalled([page EXCEPT !.url = Value(req).url], Value(req).options, now)
    /\ invoked' = Append(invoked, [service |-> "analyze", url |-> Value(req).url])
    /\ IF Value(report').ok
       THEN /\ caught' = None
            /\ res' = Some([status |-> 200, success |-> TRUE, error |-> None,
                            message |-> None, results |-> Some(Value(report').results)])
       ELSE /\ caught' = Some(Value(report').message)
            /\ res' = Some(errorResponse(Value(report').message))
    /\ rpc' = "responded"
    /\ UNCHANGED <<development, req, scrapeVars, retryVars, limitVars>>

\* scrapeUrl has rejected: the catch block answers.
ScrapeThrows ==
    /\ rpc = "scraping"
    /\ pc = "thrown"
    /\ caught' = thrownMessage
    /\ res' = Some(errorResponse(Value(thrownMessage)))
    /\ rpc' = "responded"
    /\ UNCHANGED <<development, req, invoked, scrapeVars, retryVars, analyzeVars, limitVars>>

-----------------------------------------------------------------------------
(* checkRateLimit: the in-memory rate limiter.                             *)

\* The limit and the window the callers pass, the clock values of a run and the
\* number of calls in it.
RateLimit == 2
WindowMs == 1000
StartTime == 50000
TickMs == 500
EndTime == 53000
MaxChecks == 5

\* The identifiers of the callers: an address, a user id with an underscore
\* before a number, and a name with an underscore before a letter.
limitText ==
    [address |-> <<"1", ".", "2">>,
     userId |-> <<"u", "_", "1">>,
     name |-> <<"a", "_", "b">>,
     underscore |-> <<"_">>]

Identifiers == {limitText.address, limitText.userId, limitText.name}

\* `${identifier}_${Math.floor(now / windowMs)}`
keyOf(identifier, now, windowMs) == identifier \o limitText.underscore \o ToStr(now \div windowMs)

\* parseInt(storeKey.split('_')[1]): None is NaN
keyTimeOf(storeKey) == parseInt(Str(split(storeKey, "_")[2]))

\* now - (keyTime * windowMs) > windowMs * 2: false when keyTime is NaN
expired(storeKey, now, windowMs) ==
    /\ IsSome(keyTimeOf(storeKey))
    /\ now - (Value(keyTimeOf(storeKey)) * windowMs) > windowMs * 2

\* checkRateLimit(identifier, limit, windowMs) is called; the store exists from
\* the first call on.
CheckRateLimit(identifier, limit, windowMs) ==
    /\ Len(checks) < MaxChecks
    /\ LET now == clock
           key == keyOf(identifier, now, windowMs)
           current == IF key \in DOMAIN rateLimitStore THEN rateLimitStore[key] ELSE 0
           set == [k \in DOMAIN rateLimitStore \cup {key} |->
                      IF k = key THEN current + 1 ELSE rateLimitStore[k]]
       IN  /\ rateLimitStore' =
                  IF current >= limit THEN rateLimitStore
                  ELSE [k \in {k \in DOMAIN set : ~expired(k, now, windowMs)} |-> set[k]]
           /\ checks' = Append(checks, [identifier |-> identifier,
                                        window |-> now \div windowMs,
                                        returned |-> current < limit,
                                        store |-> rateLimitStore'])
    /\ UNCHANGED clock
    /\ UNCHANGED <<scrapeVars, retryVars, analyzeVars, routeVars>>

\* Time passes.
Tick ==
    /\ clock + TickMs <= EndTime
    /\ clock' = clock + TickMs
    /\ UNCHANGED <<rateLimitStore, checks>>
    /\ UNCHANGED <<scrapeVars, retryVars, analyzeVars, routeVars>>

-----------------------------------------------------------------------------
(* Properties of POST /api/seo/analyze.                                    *)

Responded == IsSome(res)
Status == Value(res).status
\* The keys of a report: url, timestamp, the eleven sections, recommendations
\* and score.
ReportKeys ==
    {"url", "timestamp", "metadata", "headings", "links", "images", "performance", "security",
     "technical", "accessibility", "structuredData", "mobile", "contentQuality",
     "recommendations", "score"}

\* C18: every analyze call either returns a report that holds all eleven
\* sections, recommendations and score, or throws an error whose message is
\* 'SEO analysis failed: ' followed by the message of the original failure; a
\* response of the route carries a results object exactly when its status is
\* 200, that object is a whole report, and every other response carries an
\* error text instead.
C18_NoPartialReport ==
    /\ \A i \in 1..Len(calls) :
          IF calls[i].report.ok
          THEN DOMAIN calls[i].report.results = ReportKeys
          ELSE calls[i].report.message =
                   <<"S","E","O"," ","a","n","a","l","y","s","i","s"," ","f","a","i","l","e","d",
                     ":"," ">> \o <<"I","n","v","a","l","i","d"," ","U","R","L">>
    /\ Responded =>
          /\ Status = 200 <=> IsSome(Value(res).results)
          /\ Status = 200 => DOMAIN Value(Value(res).results) = ReportKeys
          /\ Status # 200 => IsSome(Value(res).error)

\* A request whose url has no protocol passes validation and is scraped; analyze
\* then fails on it and the response carries the error only.
C18_Witness ==
    /\ Responded
    /\ Len(invoked) = 2
    /\ invoked[2].service = "analyze"
    /\ ~Value(report).ok
    /\ caught = Some(strAnalysisFailed \o msgInvalidUrl)
    /\ Value(res).results = None
    /\ Status = 400

\* C19: when scrapeUrl or analyze has failed, the status of the response is the
\* first match on the message of the error: 400 if it contains 'Invalid URL',
\* else 504 if it contains 'timeout', else 429 if it contains 'rate limit', else
\* 500.
C19_StatusByMessage ==
    (Responded /\ IsSome(caught)) =>
        LET Has(sub) == includes(Value(caught), sub)
        IN  Status =
                (IF Has(<<"I","n","v","a","l","i","d"," ","U","R","L">>) THEN 400
                 ELSE IF Has(<<"t","i","m","e","o","u","t">>) THEN 504
                 ELSE IF Has(<<"r","a","t","e"," ","l","i","m","i","t">>) THEN 429
                 ELSE 500)

\* Three attempts that all failed with a message holding both 'rate limit' and
\* 'timeout': the response is 504.
C19_Witness ==
    /\ Responded
    /\ IsSome(caught)
    /\ attempt = 3
    /\ includes(Value(caught), <<"r","a","t","e"," ","l","i","m","i","t">>)
    /\ includes(Value(caught), <<"t","i","m","e","o","u","t">>)
    /\ Status = 504

\* The addresses of the model with a wrong protocol, a localhost or
\* private-range host, or a malformed structure.
RejectedUrls ==
    {requestText.ftp, requestText.localhost, requestText.loopback, requestText.ten,
     requestText.oneNineTwo, requestText.oneSevenTwo, requestText.linkLocal,
     requestText.spaced, requestText.auth, <<>>}

\* C20: a request whose url fails validation, or whose options fail
\* validateAnalysisParams, is answered 400 in the step it arrives: it is never
\* in the scraping phase, scrapeUrl and analyze are not invoked for it and no
\* provider request, delay or retry is made; the addresses with a wrong
\* protocol, a localhost or private-range host or a malformed structure are all
\* of this kind.
C20_InvalidAnsweredAtOnce ==
    IsSome(req) =>
        LET invalid == \/ urlValidationFails(Value(req).url)
                       \/ ~validateAnalysisParams(Value(req).options).isValid
        IN  /\ Value(req).url \in RejectedUrls => invalid
            /\ invalid =>
                  /\ rpc = "responded"
                  /\ Status = 400
                  /\ Value(res).results = None
                  /\ invoked = <<>>
                  /\ calls = <<>>
                  /\ log = <<>>
                  /\ pc = "idle"

\* A request for an address in 172.16.0.0/12 has been answered 400 with nothing
\* invoked.
C20_Witness ==
    /\ Responded
    /\ Value(req).url = requestText.oneSevenTwo
    /\ Value(req).options = NoOptions
    /\ Status = 400
    /\ Value(res).error = Some(routeText.validationFailed)
    /\ invoked = <<>>

\* C21 (as stated): every url handed to scrapeUrl and to analyze is an absolute
\* http or https address, the sanitizedUrl of validateURL: 'https://' has been
\* prepended when the client omitted the protocol.
C21_NormalizedUrlPassedOn ==
    \A i \in 1..Len(invoked) :
        /\ \/ startsWith(invoked[i].url, <<"h","t","t","p",":","/","/">>)
           \/ startsWith(invoked[i].url, <<"h","t","t","p","s",":","/","/">>)
        /\ invoked[i].url = validateURL(Value(req).url).sanitizedUrl

\* C23: when every attempt on the provider exceeds the fetch timeout, a request
\* that has reached scrapeUrl ends: after three attempts, one after the other
\* (the route leaves maxRetries at its default), the client is answered 504
\* 'Analysis timed out' with no report, and analyze has not run.
C23_TimeoutEnds504 ==
    (rpc = "scraping") ~>
        (/\ rpc = "responded"
         /\ Status = 504
         /\ Value(res).error = Some(<<"A","n","a","l","y","s","i","s"," ","t","i","m","e","d"," ",
                                      "o","u","t">>)
         /\ Value(res).results = None
         /\ Requests = 3
         /\ Failures = 3
         /\ calls = <<>>)

\* The third attempt has timed out and the request has been answered 504.
C23_Witness ==
    /\ rpc = "responded"
    /\ attempt = 3
    /\ Value(lastError) = TimeoutError
    /\ caught = Some(failureMessage(3, axiosMessage.timeout))
    /\ Status = 504

-----------------------------------------------------------------------------
(* Properties of checkRateLimit.                                           *)

\* The calls before call i that were for its identifier, in its window, and
\* returned true.
GrantedBefore(i) ==
    {j \in 1..(i - 1) : /\ checks[j].identifier = checks[i].identifier
                        /\ checks[j].window = checks[i].window
                        /\ checks[j].returned}

\* C30 (as stated): for every identifier, with or without '_', and whatever
\* calls for other identifiers come in between, at most `limit` calls for it
\* return true within one window: a call returns true exactly while fewer than
\* `limit` calls for the identifier have returned true in the window, and a
\* call that returns false leaves the store as it was.
C30_AtMostLimitPerWindow ==
    \A i \in 1..Len(checks) :
        /\ checks[i].returned <=> Cardinality(GrantedBefore(i)) < RateLimit
        /\ ~checks[i].returned =>
              checks[i].store = (IF i = 1 THEN [key \in {} |-> 0] ELSE checks[i - 1].store)
-----------------------------------------------------------------------------
(* Specifications.                                                         *)

ScrapeIdle ==
    /\ options = [maxRetries |-> None, retryDelay |-> None, retryDelayMs |-> None]
    /\ pc = "idle"
    /\ attempt = 0
    /\ lastError = None
    /\ log = <<>>
    /\ result = None
    /\ thrownMessage = None

RetryIdle == error = None /\ retry = None

AnalyzeIdle == doc = CleanDoc /\ report = None /\ calls = <<>>

RouteIdle ==
    /\ development = FALSE
    /\ req = None
    /\ rpc = "idle"
    /\ caught = None
    /\ invoked = <<>>
    /\ res = None

LimitIdle == rateLimitStore = [key \in {} |-> 0] /\ clock = StartTime /\ checks = <<>>

\* One scrapeUrl call against a provider that answers each request in any way.
InitScrape == ScrapeIdle /\ RetryIdle /\ AnalyzeIdle /\ RouteIdle /\ LimitIdle

NextScrape ==
    \/ \E opts \in OptionValues : Call(opts)
    \/ \E r \in Responses : GetResolves(r)
    \/ \E e \in Errors : GetRejects(e)
    \/ DelayElapsed

SpecScrape == InitScrape /\ [][NextScrape]_vars

\* shouldRetry applied to any error.
InitRetry ==
    /\ ScrapeIdle
    /\ AnalyzeIdle
    /\ RouteIdle
    /\ LimitIdle
    /\ error \in {Some(e) : e \in Errors}
    /\ retry = None

NextRetry == ApplyShouldRetry

SpecRetry == InitRetry /\ [][NextRetry]_vars

\* analyze applied to any document.
InitAnalyze ==
    /\ ScrapeIdle
    /\ RetryIdle
    /\ RouteIdle
    /\ LimitIdle
    /\ doc \in Documents
    /\ report = None
    /\ calls = <<>>

NextAnalyze == \E now \in Times : Analyze(now)

SpecAnalyze == InitAnalyze /\ [][NextAnalyze]_vars

\* Calls of analyze, one after the other, on the one analyzer the module exports.
InitSession == ScrapeIdle /\ RetryIdle /\ AnalyzeIdle /\ RouteIdle /\ LimitIdle

NextSession ==
    \E d \in SessionDocuments, opts \in AnalysisOptions, now \in Times :
        AnalyzeCall(d, opts, now)

SpecSession == InitSession /\ [][NextSession]_vars

\* One POST /api/seo/analyze request, the provider answering each attempt in any
\* way.
InitRoute ==
    /\ ScrapeIdle
    /\ RetryIdle
    /\ AnalyzeIdle
    /\ development \in BOOLEAN
    /\ req = None
    /\ rpc = "idle"
    /\ caught = None
    /\ invoked = <<>>
    /\ res = None
    /\ LimitIdle

NextRoute ==
    \/ \E body \in RequestBodies : Post(body)
    \/ \E r \in Responses : GetResolves(r)
    \/ \E e \in RouteErrors : GetRejects(e)
    \/ DelayElapsed
    \/ \E page \in RoutePages, now \in 1..MaxTime : ScrapeReturns(page, now)
    \/ ScrapeThrows

SpecRoute == InitRoute /\ [][NextRoute]_vars

\* One POST /api/seo/analyze request while every attempt on the provider exceeds
\* the timeout of the HTTP client.  The client's timer and the timer of delay()
\* always fire, and the handler runs when its await settles: each step that is
\* enabled is eventually taken.
NextTimeout ==
    \/ \E body \in RequestBodies : Post(body)
    \/ GetRejects(TimeoutError)
    \/ DelayElapsed
    \/ ScrapeThrows

SpecTimeout == InitRoute /\ [][NextTimeout]_vars /\ WF_vars(NextTimeout)

\* The checkRateLimit calls of the process, for any identifiers, while time
\* passes.
InitLimit == ScrapeIdle /\ RetryIdle /\ AnalyzeIdle /\ RouteIdle /\ LimitIdle

NextLimit ==
    \/ \E identifier \in Identifiers : CheckRateLimit(identifier, RateLimit, WindowMs)
    \/ Tick

SpecLimit == InitLimit /\ [][NextLimit]_vars
====
